---- MODULE Spec2Model ----
(***************************************************************************)
(* A model of kitaplik's filesystem mutation engine: the paste (copy/move) *)
(* worker of Kitaplik::onMenuPaste with its recursive transfer, the trash  *)
(* operations of Kitaplik, and the batch copy of FileOperations.           *)
(*                                                                         *)
(* Names are sequences of one-character strings, paths are sequences of    *)
(* names (the root is <<>>), and the filesystem is a function from the     *)
(* paths that exist to their entries.  Sizes are counted in blocks; the    *)
(* content of a file is the sequence of its blocks.                        *)
(***************************************************************************)
EXTENDS Integers, Sequences, FiniteSets, TLC

\* Op applied to the value of an expression that is evaluated once.
Let(value, Op(_)) == CHOOSE result \in {Op(v) : v \in {value}} : TRUE

(***************************************************************************)
(* Characters                                                              *)
(***************************************************************************)
\* The printable ASCII characters in code order; Ascii[i] has code 31 + i
\* (the double quote, the backslash and the backquote are spelled out: no name
\* uses them).
Ascii ==
  << " ", "!", "dquote", "#", "$", "%", "&", "'", "(", ")", "*", "+", ",", "-", ".", "/",
     "0", "1", "2", "3", "4", "5", "6", "7", "8", "9", ":", ";", "<", "=", ">", "?",
     "@", "A", "B", "C", "D", "E", "F", "G", "H", "I", "J", "K", "L", "M", "N", "O",
     "P", "Q", "R", "S", "T", "U", "V", "W", "X", "Y", "Z", "[", "bslash", "]", "^", "_",
     "bquote", "a", "b", "c", "d", "e", "f", "g", "h", "i", "j", "k", "l", "m", "n", "o",
     "p", "q", "r", "s", "t", "u", "v", "w", "x", "y", "z", "{", "|", "}", "~" >>

CharCode(c) == 31 + (CHOOSE i \in 1..Len(Ascii) : Ascii[i] = c)

CharOf(code) == Ascii[code - 31]

DigitChars == <<"0", "1", "2", "3", "4", "5", "6", "7", "8", "9">>

HexChars == DigitChars \o <<"A", "B", "C", "D", "E", "F">>

\* QString::number(n): the decimal digits of n.
RECURSIVE NumberChars(_)
NumberChars(n) ==
  IF n < 10 THEN <<DigitChars[n + 1]>>
  ELSE NumberChars(n \div 10) \o <<DigitChars[(n % 10) + 1]>>

\* QString comparison by code point, as QDir::Name sorts (no LocaleAware flag).
RECURSIVE NameLess(_, _)
NameLess(a, b) ==
  IF b = <<>> THEN FALSE
  ELSE IF a = <<>> THEN TRUE
  ELSE IF CharCode(Head(a)) # CharCode(Head(b)) THEN CharCode(Head(a)) < CharCode(Head(b))
  ELSE NameLess(Tail(a), Tail(b))

IsBlank(s) == \A i \in 1..Len(s) : s[i] = " "

IndexOfFirst(s, c) ==
  IF \E i \in 1..Len(s) : s[i] = c
  THEN CHOOSE i \in 1..Len(s) : s[i] = c /\ \A j \in 1..(i - 1) : s[j] # c
  ELSE 0

IndexOfLast(s, c) ==
  IF \E i \in 1..Len(s) : s[i] = c
  THEN CHOOSE i \in 1..Len(s) : s[i] = c /\ \A j \in (i + 1)..Len(s) : s[j] # c
  ELSE 0

StartsWith(s, prefix) ==
  Len(prefix) <= Len(s) /\ SubSeq(s, 1, Len(prefix)) = prefix

(***************************************************************************)
(* Paths and the filesystem                                                *)
(***************************************************************************)
ParentOf(p) == IF p = <<>> THEN <<>> ELSE SubSeq(p, 1, Len(p) - 1)

FileNameOf(p) == IF p = <<>> THEN <<>> ELSE p[Len(p)]

FilePath(dir, name) == Append(dir, name)

IsUnder(p, anc) == Len(p) > Len(anc) /\ SubSeq(p, 1, Len(anc)) = anc

NoEntry == [kind |-> "none", data |-> <<>>, target |-> <<>>, w |-> FALSE]

DirEntry == [kind |-> "dir", data |-> <<>>, target |-> <<>>, w |-> TRUE]

FileEntry(content) == [kind |-> "file", data |-> content, target |-> <<>>, w |-> TRUE]

LinkEntry(to) == [kind |-> "link", data |-> <<>>, target |-> to, w |-> TRUE]

OtherEntry == [kind |-> "other", data |-> <<>>, target |-> <<>>, w |-> TRUE]

\* The path a chain of symbolic links ends at (the path itself when it is no
\* link); a chain longer than the number of entries is a loop and ends nowhere.
RECURSIVE FollowLinks(_, _, _)
FollowLinks(f, p, hops) ==
  IF p \notin DOMAIN f THEN p
  ELSE IF f[p].kind # "link" THEN p
  ELSE IF hops = 0 THEN <<FileNameOf(p), <<>>>>
  ELSE FollowLinks(f, f[p].target, hops - 1)

\* stat(2): QFileInfo follows symbolic links for exists(), isFile(), isDir(), size().
Stat(f, p) ==
  LET q == FollowLinks(f, p, Cardinality(DOMAIN f))
  IN  IF q \in DOMAIN f THEN f[q] ELSE NoEntry

Exists(f, p) == Stat(f, p).kind # "none"

IsDir(f, p) == Stat(f, p).kind = "dir"

IsFile(f, p) == Stat(f, p).kind = "file"

IsSymLink(f, p) == p \in DOMAIN f /\ f[p].kind = "link"

IsWritable(f, p) == Stat(f, p).kind # "none" /\ Stat(f, p).w

FileSize(f, p) == Len(Stat(f, p).data)

ChildrenOf(f, dir) == {q \in DOMAIN f : Len(q) = Len(dir) + 1 /\ SubSeq(q, 1, Len(dir)) = dir}

\* The filesystem without p and everything beneath it.
Without(f, p) == [q \in {r \in DOMAIN f : r # p /\ ~IsUnder(r, p)} |-> f[q]]

\* The filesystem with entry e put at p.
WithEntry(f, p, e) == [q \in (DOMAIN f) \cup {p} |-> IF q = p THEN e ELSE f[q]]

\* rename(2) of a file or a directory tree from p to q.
Renamed(f, p, q) ==
  LET moved == {r \in DOMAIN f : r = p \/ IsUnder(r, p)}
      kept  == (DOMAIN f) \ moved
      to(r) == q \o SubSeq(r, Len(p) + 1, Len(r))
  IN  [r \in kept \cup {to(m) : m \in moved} |->
         IF \E m \in moved : to(m) = r
         THEN f[CHOOSE m \in moved : to(m) = r]
         ELSE f[r]]

\* QDir::mkpath: the directory and every missing ancestor.
RECURSIVE MkPath(_, _)
MkPath(f, p) ==
  IF p \in DOMAIN f THEN f
  ELSE WithEntry(MkPath(f, ParentOf(p)), p, DirEntry)

(***************************************************************************)
(* Bounds of the model                                                     *)
(***************************************************************************)
\* Paste runs completed in one behaviour.
MaxRuns == 1

\* Injected I/O failures (open, write, remove, mkdir, ...) in one behaviour.
MaxFaults == 1


\* What QDateTime::currentMSecsSinceEpoch() returns during a run (the clock
\* does not visibly advance within the runs of the model).
ClockValues == {1}

(***************************************************************************)
(* Program constants                                                       *)
(***************************************************************************)
\* The read buffer of copyFileWithProgress, in blocks (one block stands for
\* half of the 1 MiB buffer, so that a three-block file takes two reads).
BufferBlocks == 2

\* The last candidate number makeUniqueKeepBothPath probes.
KeepBothLimit == 10000

\* The rounded percentage scale of the progress lambda.
PercentScale == 100

(***************************************************************************)
(* Path safety and sizing helpers (kitaplik.cpp, anonymous namespace)      *)
(***************************************************************************)
\* canonicalFilePath for an existing path, the cleaned path otherwise.  Paths
\* of the model are clean by construction; symbolic links are resolved in the
\* last component.
normalizePathForFs(f, p) ==
  IF Exists(f, p) THEN FollowLinks(f, p, Cardinality(DOMAIN f)) ELSE p

\* The nearest existing ancestor-or-self; <<<<>>>> stands for the empty string.
NoPath == << <<>> >>

RECURSIVE nearestExistingPath(_, _)
nearestExistingPath(f, p) ==
  IF Exists(f, p) THEN p
  ELSE IF ~Exists(f, ParentOf(p)) \/ ParentOf(p) = p THEN NoPath
  ELSE nearestExistingPath(f, ParentOf(p))

\* The nearest ancestor-or-self of p that exists, at any depth; the root
\* always exists.
RECURSIVE NearestAncestor(_, _)
NearestAncestor(f, p) ==
  IF Exists(f, p) \/ p = <<>> THEN p ELSE NearestAncestor(f, ParentOf(p))

\* "" for success, the message otherwise.
ensureWritableTarget(f, p) ==
  LET existing == nearestExistingPath(f, p)
  IN  IF existing = NoPath THEN "No writable parent for path"
      ELSE IF ~IsWritable(f, existing) THEN "Permission denied"
      ELSE ""

ensureReadableSource(f, p) ==
  IF ~Exists(f, p) THEN "Missing source" ELSE ""

\* QFileInfo::isHidden on Unix: the name starts with a dot.
IsHidden(p) == FileNameOf(p) # <<>> /\ Head(FileNameOf(p)) = "."

\* QDir::entryInfoList(NoDotAndDotDot | AllEntries): files, directories and
\* symbolic links that are not broken; no hidden entries (QDir::Hidden is not
\* set) and no sockets, FIFOs or devices (QDir::System is not set).
ListedEntries(f, dir) ==
  {q \in ChildrenOf(f, dir) :
     /\ ~IsHidden(q)
     /\ IsFile(f, q) \/ IsDir(f, q) \/ IsSymLink(f, q)
     /\ ~(IsSymLink(f, q) /\ ~Exists(f, q))}

\* QDir::Name | QDir::DirsFirst.
EntryBefore(f, a, b) ==
  IF IsDir(f, a) # IsDir(f, b) THEN IsDir(f, a)
  ELSE NameLess(FileNameOf(a), FileNameOf(b))

\* A variant that sorts by name alone, without QDir::DirsFirst.
SortEntriesByName(f, S) ==
  SubSeq([k \in 1..Cardinality(S) |->
            CHOOSE a \in S :
              Cardinality({b \in S : NameLess(FileNameOf(b), FileNameOf(a))}) = k - 1],
         1, Cardinality(S))

\* The entries of S in that order: each stands at the rank the number of
\* entries before it gives.
SortEntries(f, S) ==
  SubSeq([k \in 1..Cardinality(S) |->
            CHOOSE a \in S : Cardinality({b \in S : EntryBefore(f, b, a)}) = k - 1],
         1, Cardinality(S))

entryInfoList(f, dir) == Let(ListedEntries(f, dir), LAMBDA S : SortEntries(f, S))

\* QFileInfo::completeBaseName: the name up to its last dot.
completeBaseName(name) ==
  IF IndexOfLast(name, ".") = 0 THEN name
  ELSE SubSeq(name, 1, IndexOfLast(name, ".") - 1)

\* QFileInfo::completeSuffix: the name after its first dot.
completeSuffix(name) ==
  IF IndexOfFirst(name, ".") = 0 THEN <<>>
  ELSE SubSeq(name, IndexOfFirst(name, ".") + 1, Len(name))

CopyTag(i) ==
  IF i = 1 THEN <<" ", "(", "c", "o", "p", "y", ")">>
  ELSE <<" ", "(", "c", "o", "p", "y", " ">> \o NumberChars(i) \o <<")">>

RECURSIVE ProbeKeepBoth(_, _, _, _, _, _)
ProbeKeepBoth(f, parentDir, baseName, suffix, i, stamp) ==
  IF i > KeepBothLimit
  THEN FilePath(parentDir, baseName \o <<" ", "(">> \o NumberChars(stamp) \o <<")">> \o suffix)
  ELSE LET candidatePath == FilePath(parentDir, baseName \o CopyTag(i) \o suffix)
       IN  IF ~Exists(f, candidatePath) THEN candidatePath
           ELSE ProbeKeepBoth(f, parentDir, baseName, suffix, i + 1, stamp)

makeUniqueKeepBothPathAt(f, destinationPath, stamp) ==
  LET name == FileNameOf(destinationPath)
      dir  == IsDir(f, destinationPath)
      base0 == IF dir THEN name ELSE completeBaseName(name)
      suf0 == IF dir THEN <<>> ELSE completeSuffix(name)
      suffix == IF IsBlank(suf0) THEN suf0 ELSE <<".">> \o suf0
      baseName == IF IsBlank(base0) THEN name ELSE base0
  IN  ProbeKeepBoth(f, ParentOf(destinationPath), baseName, suffix, 1, stamp)

makeUniqueKeepBothPath(f, destinationPath) ==
  makeUniqueKeepBothPathAt(f, destinationPath, CHOOSE ms \in ClockValues : TRUE)

\* [ok, n]: the size in blocks, or ok = FALSE for std::nullopt.
RECURSIVE totalBytesForPath(_, _)
RECURSIVE SumChildren(_, _, _)
SumChildren(f, entries, total) ==
  IF entries = <<>> THEN [ok |-> TRUE, n |-> total]
  ELSE Let(totalBytesForPath(f, Head(entries)),
           LAMBDA child : IF ~child.ok THEN child
                          ELSE SumChildren(f, Tail(entries), total + child.n))

totalBytesForPath(f, p) ==
  IF ~Exists(f, p) THEN [ok |-> TRUE, n |-> 0]
  ELSE IF IsFile(f, p) THEN [ok |-> TRUE, n |-> FileSize(f, p)]
  ELSE IF IsSymLink(f, p) THEN [ok |-> TRUE, n |-> 0]
  ELSE IF ~IsDir(f, p) THEN [ok |-> FALSE, n |-> 0]
  ELSE Let(entryInfoList(f, p), LAMBDA entries : SumChildren(f, entries, 0))

\* What removeRecursively leaves when the removal succeeds.
removeRecursively(f, p) ==
  IF ~Exists(f, p) THEN f ELSE Without(f, p)

\* unlink(2) / rmdir(2) of the entry at q can succeed: its directory is
\* writable, and a directory is empty once all it holds could be removed.
RECURSIVE Removable(_, _)
Removable(f, q) ==
  /\ IsWritable(f, ParentOf(q))
  /\ f[q].kind = "dir" => \A c \in ChildrenOf(f, q) : Removable(f, c)

\* What QDir::removeRecursively leaves when it fails on permissions: it goes
\* on after a failure and removes what it can.
RemovedWhatCan(f, p) ==
  [q \in {r \in DOMAIN f : ~((r = p \/ IsUnder(r, p)) /\ Removable(f, r))} |-> f[q]]

(***************************************************************************)
(* State                                                                   *)
(***************************************************************************)
VARIABLES
  fs,              \* the filesystem: path -> entry
  clipboard,       \* QApplication::clipboard(): [urls, cut]
  pasteInProgress, \* Kitaplik::pasteInProgress
  eventQueue,      \* queued invocations posted to the Kitaplik object, in order
  ui,              \* what the controlling context has shown and received
  w,               \* the locals of the worker thread (Kitaplik::fileOpThread)
  faults,          \* injected I/O failures so far
  core,            \* the operation of FileOperations and its worker thread
  self,            \* the Kitaplik object: "alive", "joining" (its destructor
                   \* waits for fileOpThread) or "gone"
  returned         \* what the helper functions called on their own returned:
                   \* the paths of makeUniqueKeepBothPath per base path, or
                   \* the last call [op, path, value]

vars == <<fs, clipboard, pasteInProgress, eventQueue, ui, w, faults, core, self, returned>>

ConflictChoice == {"Replace", "Skip", "KeepBoth", "Cancel"}

Event(type, done, total, src, dst, isDir, errorText, clear) ==
  [type |-> type, done |-> done, total |-> total, src |-> src, dst |-> dst,
   isDir |-> isDir, errorText |-> errorText, clear |-> clear]

ProgressEvent(done, total) == Event("progress", done, total, <<>>, <<>>, FALSE, <<>>, FALSE)

ConflictEvent(src, dst, isDir) == Event("conflict", 0, 0, src, dst, isDir, <<>>, FALSE)

FinishEvent(errorText, clear) == Event("finish", 0, 0, <<>>, <<>>, FALSE, errorText, clear)

NoProgress == [done |-> 0, total |-> 0, count |-> 0]

\* No FileOperations task was started.  result is the value of the promise
\* ("" while it is not set) and attempted counts the sources the copy loop
\* has reached.  The move* fields are the task of moveFilesAsync, an operation
\* of its own around the copy: its position, its index in the delete loop, its
\* cancellation flag and the value of its promise.  slot is operations_[id]
\* ("absent", "null" for a default-inserted empty pointer, "record"), starting
\* holds while startOperation owns operationsMutex_, and refs is what the flag
\* references handed to the task were bound to.
IdleCore ==
  [pc |-> "idle", sources |-> <<>>, destination |-> <<>>, overwrite |-> FALSE,
   k |-> 0, attempted |-> 0, cancelled |-> FALSE, completed |-> FALSE,
   result |-> "", doneSize |-> 0, totalSize |-> 0,
   movePc |-> "none", moveK |-> 0, moveCancelled |-> FALSE, moveResult |-> "",
   slot |-> "absent", starting |-> FALSE, refs |-> "none"]

IdleWorker ==
  [pc |-> "idle", sourcePaths |-> <<>>, destDir |-> <<>>, isCut |-> FALSE,
   errors |-> <<>>, perSrcBytes |-> <<>>, totalBytes |-> 0, doneBytes |-> 0,
   lastPercent |-> -1, userCancelled |-> FALSE, i |-> 0, stack |-> <<>>,
   src |-> <<>>, dst |-> <<>>, kind |-> "none", choice |-> "Skip",
   answered |-> FALSE, tempPath |-> <<>>, offset |-> 0, ok |-> FALSE, error |-> ""]

\* notice: the message box the last handler run on the controlling context
\* showed ("none" when it showed none); progress: the last notification the
\* progress callback received in the current run; started and
\* completions: the runs started and the completions received; errorText and
\* cleared: the outcome the last completion delivered.
IdleUi ==
  [notice |-> "none", progress |-> NoProgress, started |-> 0, completions |-> 0,
   errorText |-> <<>>, cleared |-> FALSE]

\* The temporary sibling copyFileWithProgress writes to: "<dest>.kitaplik-tmp-<ms>".
TempMarker == <<".", "k", "i", "t", "a", "p", "l", "i", "k", "-", "t", "m", "p", "-">>

\* A variant that writes straight to the final name.
TempPathInPlace(destPath, ms) == destPath

TempPathFor(destPath, ms) ==
  FilePath(ParentOf(destPath), FileNameOf(destPath) \o TempMarker \o NumberChars(ms))

\* A variant that posts the dialog without waiting for it.
ConflictConnectionQueued == "QueuedConnection"

\* How the resolveConflict lambda invokes the dialog on the controlling context.
ConflictConnection == "BlockingQueuedConnection"

\* The worker may read `choice`: at once after a queued call, only after the
\* controlling context has run the dialog after a blocking queued call.
DecisionAvailable ==
  IF ConflictConnection = "BlockingQueuedConnection" THEN w.answered ELSE TRUE

\* The progress lambda of onMenuPaste: what it leaves in [queue, lastPercent].
\* `quick` says whether less than 100 ms passed since the last notification.
Progress(queue, lastPercent, done, total, quick) ==
  IF self = "gone" \/ total = 0 THEN [queue |-> queue, lastPercent |-> lastPercent]
  ELSE LET percent == (done * PercentScale) \div total
       IN  IF percent = lastPercent /\ quick
           THEN [queue |-> queue, lastPercent |-> lastPercent]
           ELSE [queue |-> Append(queue, ProgressEvent(done, total)), lastPercent |-> percent]

\* The size scan of onMenuPaste over the sources from index k on.
RECURSIVE ScanSources(_, _, _, _)
ScanSources(f, sources, k, acc) ==
  IF k > Len(sources) THEN acc
  ELSE Let(totalBytesForPath(f, sources[k]),
           LAMBDA sizeOpt :
             IF ~sizeOpt.ok
             THEN ScanSources(f, sources, k + 1,
                    [errors |-> Append(acc.errors, "Unsupported file type"),
                     perSrcBytes |-> Append(acc.perSrcBytes, 0),
                     totalBytes |-> acc.totalBytes])
             ELSE ScanSources(f, sources, k + 1,
                    [errors |-> acc.errors,
                     perSrcBytes |-> Append(acc.perSrcBytes, sizeOpt.n),
                     totalBytes |-> acc.totalBytes + sizeOpt.n]))

\* The sources onMenuPaste keeps: normalized, existing and readable.
RECURSIVE ReadableSources(_, _)
ReadableSources(f, urls) ==
  IF urls = <<>> THEN <<>>
  ELSE LET srcPath == normalizePathForFs(f, Head(urls))
       IN  (IF ensureReadableSource(f, srcPath) = "" THEN <<srcPath>> ELSE <<>>)
           \o ReadableSources(f, Tail(urls))

FaultChoices == IF faults < MaxFaults THEN BOOLEAN ELSE {FALSE}

Charge(fail) == faults' = faults + (IF fail THEN 1 ELSE 0)

\* The current call of copyRecursivelyWithProgress returns.
Return(rec, ok, error) == [rec EXCEPT !.pc = "ret", !.ok = ok, !.error = error]

(***************************************************************************)
(* The controlling context (main thread)                                   *)
(***************************************************************************)
\* A variant of the busy test that never refuses.
PasteBusyNever == FALSE

\* The busy test of onMenuPaste.
PasteBusy == pasteInProgress

\* Kitaplik::onMenuPaste up to the start of the worker thread.
onMenuPaste(destDir) ==
  /\ self = "alive"
  /\ LET normalizedDestInput == normalizePathForFs(fs, destDir)
         writeError == ensureWritableTarget(fs, normalizedDestInput)
         sourcePaths == ReadableSources(fs, clipboard.urls)
         Shows(notice) ==
           /\ ui' = [ui EXCEPT !.notice = notice]
           /\ UNCHANGED <<fs, clipboard, pasteInProgress, eventQueue, w, faults, core, self, returned>>
     IN  IF ~Exists(fs, normalizedDestInput) \/ ~IsDir(fs, normalizedDestInput)
         THEN Shows("Invalid directory")
         ELSE IF writeError # "" THEN Shows(writeError)
         ELSE IF PasteBusy THEN Shows("Another copy/move is already running.")
         ELSE IF clipboard.urls = <<>> \/ sourcePaths = <<>> THEN UNCHANGED vars
         ELSE /\ ui.completions < MaxRuns
              /\ pasteInProgress' = TRUE
              /\ ui' = [ui EXCEPT !.progress = NoProgress, !.notice = "none",
                                  !.started = @ + 1]
              /\ w' = [IdleWorker EXCEPT !.pc = "scan", !.sourcePaths = sourcePaths,
                                         !.destDir = normalizedDestInput,
                                         !.isCut = clipboard.cut]
              /\ UNCHANGED <<fs, clipboard, eventQueue, faults, core, self, returned>>

\* Kitaplik::updateCopyPasteProgress, run for a queued progress notification.
updateCopyPasteProgress ==
  /\ self = "alive"
  /\ eventQueue # <<>>
  /\ Head(eventQueue).type = "progress"
  /\ eventQueue' = Tail(eventQueue)
  /\ ui' = [ui EXCEPT !.notice = "none",
                      !.progress = [done |-> Head(eventQueue).done,
                                    total |-> Head(eventQueue).total,
                                    count |-> 1]]
  /\ UNCHANGED <<fs, clipboard, pasteInProgress, w, faults, core, self, returned>>

\* The dialog of the resolveConflict lambda, run on the controlling context:
\* the button the user clicks is written to the worker's `choice`.
conflictDialog ==
  /\ self = "alive"
  /\ eventQueue # <<>>
  /\ Head(eventQueue).type = "conflict"
  /\ eventQueue' = Tail(eventQueue)
  /\ \E clicked \in ConflictChoice :
       w' = [w EXCEPT !.choice = clicked, !.answered = TRUE]
  /\ ui' = [ui EXCEPT !.notice = "Paste conflict"]
  /\ UNCHANGED <<fs, clipboard, pasteInProgress, faults, core, self, returned>>

\* A variant of the completion handler that leaves the busy flag set.
finishKeepsBusy ==
  /\ self = "alive"
  /\ eventQueue # <<>>
  /\ Head(eventQueue).type = "finish"
  /\ eventQueue' = Tail(eventQueue)
  /\ ui' = [ui EXCEPT !.notice = "none", !.completions = @ + 1,
                      !.errorText = Head(eventQueue).errorText,
                      !.cleared = Head(eventQueue).clear]
  /\ UNCHANGED <<fs, clipboard, pasteInProgress, w, faults, core, self, returned>>

\* Kitaplik::finishPasteOperation, run for the queued completion.
finishPasteOperation ==
  /\ self = "alive"
  /\ eventQueue # <<>>
  /\ Head(eventQueue).type = "finish"
  /\ eventQueue' = Tail(eventQueue)
  /\ pasteInProgress' = FALSE
  /\ clipboard' = IF Head(eventQueue).clear THEN [urls |-> <<>>, cut |-> FALSE]
                  ELSE clipboard
  /\ ui' = [ui EXCEPT !.notice = IF Head(eventQueue).errorText = <<>> THEN "none"
                                  ELSE "Paste warning",
                      !.completions = @ + 1,
                      !.errorText = Head(eventQueue).errorText,
                      !.cleared = Head(eventQueue).clear,
                      !.progress = NoProgress]
  /\ UNCHANGED <<fs, w, faults, core, self, returned>>

(***************************************************************************)
(* The worker thread of onMenuPaste                                        *)
(***************************************************************************)
\* The size scan and the initial zero-progress notification.
WorkerScan ==
  /\ w.pc = "scan"
  /\ \E scan \in {ScanSources(fs, w.sourcePaths, 1,
                      [errors |-> <<>>, perSrcBytes |-> <<>>, totalBytes |-> 0])} :
       /\ w' = [w EXCEPT !.pc = "loop", !.errors = scan.errors,
                         !.perSrcBytes = scan.perSrcBytes,
                         !.totalBytes = scan.totalBytes,
                         !.doneBytes = 0, !.lastPercent = -1, !.i = 1]
       /\ eventQueue' = Append(eventQueue, ProgressEvent(0, scan.totalBytes))
  /\ UNCHANGED <<fs, clipboard, pasteInProgress, ui, faults, core, self, returned>>

\* The head of the source loop: the checks, and the in-place rename of a move.
WorkerSource ==
  /\ w.pc = "loop"
  /\ IF w.i > Len(w.sourcePaths)
     THEN /\ w' = [w EXCEPT !.pc = "finish"]
          /\ UNCHANGED <<fs, eventQueue>>
     ELSE LET srcPath == w.sourcePaths[w.i]
              destPath == FilePath(normalizePathForFs(fs, w.destDir), FileNameOf(srcPath))
              sourceWriteError == ensureWritableTarget(fs, srcPath)
              next == [w EXCEPT !.i = @ + 1]
              call == [w EXCEPT !.pc = "call", !.src = srcPath, !.dst = destPath,
                                !.stack = <<>>, !.error = ""]
          IN  IF ~Exists(fs, srcPath)
              THEN w' = next /\ UNCHANGED <<fs, eventQueue>>
              ELSE IF w.isCut /\ sourceWriteError # ""
              THEN /\ w' = [next EXCEPT !.errors = Append(@, sourceWriteError)]
                   /\ UNCHANGED <<fs, eventQueue>>
              ELSE IF srcPath = destPath
              THEN w' = next /\ UNCHANGED <<fs, eventQueue>>
              ELSE IF w.isCut /\ ~Exists(fs, destPath)
              THEN \E renamed \in (IF destPath \in DOMAIN fs THEN {FALSE} ELSE BOOLEAN),
                      quick \in BOOLEAN :
                     IF renamed
                     THEN LET done == w.doneBytes + w.perSrcBytes[w.i]
                              p == Progress(eventQueue, w.lastPercent, done, w.totalBytes, quick)
                          IN  /\ fs' = Renamed(fs, srcPath, destPath)
                              /\ eventQueue' = p.queue
                              /\ w' = [next EXCEPT !.doneBytes = done,
                                                   !.lastPercent = p.lastPercent]
                     ELSE w' = call /\ UNCHANGED <<fs, eventQueue>>
              ELSE w' = call /\ UNCHANGED <<fs, eventQueue>>
  /\ UNCHANGED <<clipboard, pasteInProgress, ui, faults, core, self, returned>>

\* The entry of copyRecursivelyWithProgress / copyFileWithProgress for one node:
\* the kind of the source, and the conflict request when the destination exists.
WorkerCall ==
  /\ w.pc = "call"
  /\ LET entered == [w EXCEPT !.userCancelled = FALSE]
         kind == IF IsSymLink(fs, w.src) THEN "link"
                 ELSE IF IsDir(fs, w.src) THEN "dir" ELSE "file"
     IN  IF ~Exists(fs, w.src)
         THEN w' = Return(entered, FALSE, "Missing source") /\ UNCHANGED eventQueue
         ELSE IF Exists(fs, w.dst) /\ self = "gone"
         THEN /\ w' = [entered EXCEPT !.pc = "await", !.kind = kind,
                                      !.choice = "Cancel", !.answered = TRUE]
              /\ UNCHANGED eventQueue
         ELSE IF Exists(fs, w.dst)
         THEN /\ w' = [entered EXCEPT !.pc = "await", !.kind = kind,
                                      !.choice = "Skip", !.answered = FALSE]
              /\ eventQueue' = Append(eventQueue, ConflictEvent(w.src, w.dst, kind = "dir"))
         ELSE /\ w' = [entered EXCEPT !.pc = "body", !.kind = kind]
              /\ UNCHANGED eventQueue
  /\ UNCHANGED <<fs, clipboard, pasteInProgress, ui, faults, core, self, returned>>

\* The worker acts on the decision of the conflict dialog.
WorkerResolve ==
  /\ w.pc = "await"
  /\ DecisionAvailable
  /\ CASE w.choice = "Cancel" ->
            /\ w' = Return([w EXCEPT !.userCancelled = TRUE], FALSE, "Operation cancelled.")
            /\ UNCHANGED <<fs, eventQueue, faults>>
       [] w.choice = "Skip" /\ w.kind = "link" ->
            /\ w' = Return(w, TRUE, "")
            /\ UNCHANGED <<fs, eventQueue, faults>>
       [] w.choice = "Skip" /\ w.kind # "link" ->
            \* advanceProgressByPathSize
            \E size \in {totalBytesForPath(fs, w.src)} :
                IF ~size.ok
                THEN /\ w' = Return(w, FALSE, "Unsupported file type")
                     /\ UNCHANGED <<fs, eventQueue, faults>>
                ELSE \E quick \in BOOLEAN :
                       LET done == w.doneBytes + size.n
                           p == Progress(eventQueue, w.lastPercent, done, w.totalBytes, quick)
                       IN  /\ w' = Return([w EXCEPT !.doneBytes = done,
                                                    !.lastPercent = p.lastPercent], TRUE, "")
                           /\ eventQueue' = p.queue
                           /\ UNCHANGED <<fs, faults>>
       [] w.choice = "KeepBoth" ->
            /\ w' = [w EXCEPT !.pc = "body", !.dst = makeUniqueKeepBothPath(fs, w.dst)]
            /\ UNCHANGED <<fs, eventQueue, faults>>
       [] w.choice = "Replace" ->
            \E fail \in FaultChoices :
              /\ Charge(fail)
              /\ IF fail
                 THEN w' = Return(w, FALSE, "Failed to delete") /\ UNCHANGED fs
                 ELSE w' = [w EXCEPT !.pc = "body"] /\ fs' = removeRecursively(fs, w.dst)
              /\ UNCHANGED eventQueue
  /\ UNCHANGED <<clipboard, pasteInProgress, ui, core, self, returned>>

\* After the conflict handling: the link is recreated, the directory is made and
\* listed, or the source is opened and the temporary sibling created.
WorkerBody ==
  /\ w.pc = "body"
  /\ \E fail \in FaultChoices, ms \in ClockValues, opens \in BOOLEAN :
       /\ Charge(fail)
       /\ CASE w.kind = "link" ->
                 IF fail \/ w.dst \in DOMAIN fs
                 THEN w' = Return(w, FALSE, "Failed to copy symbolic link") /\ UNCHANGED fs
                 ELSE /\ fs' = WithEntry(fs, w.dst, LinkEntry(fs[w.src].target))
                      /\ w' = Return(w, TRUE, "")
            [] w.kind = "dir" ->
                 IF ~Exists(fs, w.dst)
                 THEN IF fail \/ w.dst \in DOMAIN fs \/ ~IsDir(fs, ParentOf(w.dst))
                      THEN w' = Return(w, FALSE, "Failed to create directory") /\ UNCHANGED fs
                      ELSE /\ fs' = WithEntry(fs, w.dst, DirEntry)
                           /\ w' = [w EXCEPT !.pc = "iter",
                                     !.stack = Append(@, [src |-> w.src, dst |-> w.dst,
                                                 entries |-> entryInfoList(fs', w.src)])]
                 ELSE IF ~IsDir(fs, w.dst)
                 THEN /\ w' = Return(w, FALSE, "Destination exists and isn't a directory")
                      /\ UNCHANGED fs
                 ELSE /\ ~fail
                      /\ w' = [w EXCEPT !.pc = "iter",
                                !.stack = Append(@, [src |-> w.src, dst |-> w.dst,
                                            entries |-> entryInfoList(fs, w.src)])]
                      /\ UNCHANGED fs
            [] w.kind = "file" ->
                 LET tempPath == TempPathFor(w.dst, ms)
                     unreadable == Stat(fs, w.src).kind = "other" /\ ~opens
                 IN  IF unreadable
                     THEN /\ ~fail
                          /\ w' = Return(w, FALSE, "Failed to open source") /\ UNCHANGED fs
                     ELSE IF fail \/ tempPath \in DOMAIN fs \/ ~IsDir(fs, ParentOf(tempPath))
                     THEN /\ w' = Return(w, FALSE, "Failed to create temporary file")
                          /\ UNCHANGED fs
                     ELSE /\ fs' = WithEntry(fs, tempPath, FileEntry(<<>>))
                          /\ w' = [w EXCEPT !.pc = "copy", !.tempPath = tempPath, !.offset = 0]
       /\ (Stat(fs, w.src).kind # "other" \/ w.kind # "file") => opens
  /\ UNCHANGED <<clipboard, pasteInProgress, eventQueue, ui, core, self, returned>>

\* A variant that leaves the temporary file where it is.
KeepTemp(f, tempPath) == f

\* dst.remove() / QFile::remove(tempPath) on the failing paths of
\* copyFileWithProgress.
RemoveTemp(f, tempPath) == Without(f, tempPath)

\* One round of the read/write loop of copyFileWithProgress.
WorkerCopy ==
  /\ w.pc = "copy"
  /\ w.offset < FileSize(fs, w.src)
  /\ \E fail \in FaultChoices, quick \in BOOLEAN :
       /\ Charge(fail)
       /\ IF fail
          THEN /\ fs' = RemoveTemp(fs, w.tempPath)
               /\ w' = Return(w, FALSE, "Write error")
               /\ UNCHANGED eventQueue
               /\ quick
          ELSE LET size == FileSize(fs, w.src)
                   n == IF size - w.offset < BufferBlocks THEN size - w.offset
                        ELSE BufferBlocks
                   buffer == SubSeq(Stat(fs, w.src).data, w.offset + 1, w.offset + n)
                   done == w.doneBytes + n
                   p == Progress(eventQueue, w.lastPercent, done, w.totalBytes, quick)
               IN  /\ fs' = [fs EXCEPT ![w.tempPath].data = @ \o buffer]
                   /\ eventQueue' = p.queue
                   /\ w' = [w EXCEPT !.offset = @ + n, !.doneBytes = done,
                                     !.lastPercent = p.lastPercent]
  /\ UNCHANGED <<clipboard, pasteInProgress, ui, core, self, returned>>

\* The end of copyFileWithProgress: flush, close, remove an existing
\* destination, rename the temporary file onto the final name.
WorkerFinalize ==
  /\ w.pc = "copy"
  /\ w.offset >= FileSize(fs, w.src)
  /\ \E fail \in FaultChoices :
       /\ Charge(fail)
       /\ LET cleared == IF Exists(fs, w.dst) THEN Without(fs, w.dst) ELSE fs
          IN  IF Exists(fs, w.dst) /\ IsDir(fs, w.dst)
              THEN /\ ~fail
                   /\ fs' = RemoveTemp(fs, w.tempPath)
                   /\ w' = Return(w, FALSE, "Failed to replace destination")
              ELSE IF fail \/ w.dst \in DOMAIN cleared
              THEN /\ fs' = RemoveTemp(cleared, w.tempPath)
                   /\ w' = Return(w, FALSE, "Failed to finalize destination")
              ELSE /\ fs' = Renamed(cleared, w.tempPath, w.dst)
                   /\ w' = Return(w, TRUE, "")
  /\ UNCHANGED <<clipboard, pasteInProgress, eventQueue, ui, core, self, returned>>

\* The loop over the sorted entries of a directory: the next child is copied,
\* or the directory's call returns true.
WorkerIter ==
  /\ w.pc = "iter"
  /\ LET frame == w.stack[Len(w.stack)]
     IN  IF frame.entries = <<>>
         THEN w' = Return([w EXCEPT !.stack = SubSeq(@, 1, Len(@) - 1)], TRUE, w.error)
         ELSE w' = [w EXCEPT !.pc = "call",
                             !.src = Head(frame.entries),
                             !.dst = FilePath(frame.dst, FileNameOf(Head(frame.entries))),
                             !.stack[Len(w.stack)].entries = Tail(@)]
  /\ UNCHANGED <<fs, clipboard, pasteInProgress, eventQueue, ui, faults, core, self, returned>>

\* A child's call returns into the loop of its directory: false is returned
\* at once, true goes on with the next entry.
WorkerReturn ==
  /\ w.pc = "ret"
  /\ w.stack # <<>>
  /\ IF w.ok THEN w' = [w EXCEPT !.pc = "iter"]
     ELSE w' = [w EXCEPT !.stack = SubSeq(@, 1, Len(@) - 1)]
  /\ UNCHANGED <<fs, clipboard, pasteInProgress, eventQueue, ui, faults, core, self, returned>>

\* A variant in which a cancellation does not stop the source loop.
BreaksLoopNever(ok, userCancelled) == FALSE

\* Whether the source loop stops at a failed source.
BreaksLoop(ok, userCancelled) == ~ok /\ userCancelled

\* The top-level call returns to the source loop: a move deletes the original
\* of a copied source; a failure is collected, a cancellation breaks the loop.
WorkerSourceDone ==
  /\ w.pc = "ret"
  /\ w.stack = <<>>
  /\ \E fail \in FaultChoices :
       /\ Charge(fail)
       /\ LET srcPath == w.sourcePaths[w.i]
              deletes == w.isCut /\ w.ok
              ok == w.ok /\ ~(deletes /\ fail)
              error == IF deletes /\ fail THEN "Failed to delete after move"
                       ELSE IF ~ok /\ w.error = "" THEN "Paste failed"
                       ELSE w.error
          IN  /\ ~deletes => ~fail
              /\ fs' = IF deletes /\ ~fail THEN removeRecursively(fs, srcPath) ELSE fs
              /\ IF BreaksLoop(ok, w.userCancelled)
                 THEN w' = [w EXCEPT !.pc = "finish", !.ok = ok]
                 ELSE w' = [w EXCEPT !.pc = "loop", !.i = @ + 1, !.ok = ok,
                                     !.errors = IF ok THEN @ ELSE Append(@, error)]
  /\ UNCHANGED <<clipboard, pasteInProgress, eventQueue, ui, core, self, returned>>

\* What the worker hands to finishPasteOperation.
ErrorText(errors, userCancelled) ==
  IF userCancelled THEN Append(errors, "Operation cancelled.") ELSE errors

\* A variant that clears the clipboard after every move.
ClearClipboardOnMove(errorText, isCut) == isCut

\* Whether the completion clears the clipboard.
ClearClipboard(errorText, isCut) == errorText = <<>> /\ isCut

\* After the source loop: the last progress call and the queued completion;
\* the thread function returns.
WorkerFinish ==
  /\ w.pc = "finish"
  /\ \E quick \in BOOLEAN :
       LET p == Progress(eventQueue, w.lastPercent, w.doneBytes, w.totalBytes, quick)
           errorText == ErrorText(w.errors, w.userCancelled)
       IN  /\ eventQueue' = IF self = "gone" THEN p.queue
                             ELSE Append(p.queue,
                                    FinishEvent(errorText, ClearClipboard(errorText, w.isCut)))
           /\ w' = [IdleWorker EXCEPT !.pc = "done"]
  /\ UNCHANGED <<fs, clipboard, pasteInProgress, ui, faults, core, self, returned>>

(***************************************************************************)
(* The paste specification                                                 *)
(***************************************************************************)
\* The tree the paste runs start from:
\*   /s/A/f (3 blocks)   /s/A/l -> /s/b   /s/b (1 block)   /s/o (a socket)
\*   /d/A/f (1 block)    /d/b (1 block)   /r (not writable)
PasteFs ==
  LET s == <<"s">>  d == <<"d">>  r == <<"r">>
      A == <<"A">>  f == <<"f">>  b == <<"b">>  l == <<"l">>  o == <<"o">>
  IN  (<<>> :> DirEntry)
      @@ (<<s>> :> DirEntry) @@ (<<s, A>> :> DirEntry)
      @@ (<<s, A, f>> :> FileEntry(<<"f1", "f2", "f3">>))
      @@ (<<s, A, l>> :> LinkEntry(<<s, b>>))
      @@ (<<s, b>> :> FileEntry(<<"b1">>))
      @@ (<<s, o>> :> OtherEntry)
      @@ (<<d>> :> DirEntry) @@ (<<d, A>> :> DirEntry)
      @@ (<<d, A, f>> :> FileEntry(<<"x1">>))
      @@ (<<d, b>> :> FileEntry(<<"y1">>))
      @@ (<<r>> :> [DirEntry EXCEPT !.w = FALSE])

\* URL lists another application may have put on the clipboard.
ClipboardUrls ==
  { << <<<<"s">>, <<"A">>>>, <<<<"d">>, <<"A">>, <<"f">>>> >>,
    << <<<<"s">>, <<"o">>>>, <<<<"s">>, <<"b">>>> >> }

\* The directories the user pastes into: a valid one, a read-only one and a
\* path that is no directory.
DestChoices == { <<<<"d">>>>, <<<<"r">>>>, <<<<"s">>, <<"b">>>> }

InitPaste ==
  /\ fs = PasteFs
  /\ \E urls \in ClipboardUrls, cut \in BOOLEAN : clipboard = [urls |-> urls, cut |-> cut]
  /\ pasteInProgress = FALSE
  /\ eventQueue = <<>>
  /\ ui = IdleUi
  /\ w = IdleWorker
  /\ faults = 0
  /\ core = IdleCore
  /\ self = "alive"
  /\ returned = <<>>

WorkerStep ==
  \/ WorkerScan
  \/ WorkerSource
  \/ WorkerCall
  \/ WorkerResolve
  \/ WorkerBody
  \/ WorkerCopy
  \/ WorkerFinalize
  \/ WorkerIter
  \/ WorkerReturn
  \/ WorkerSourceDone
  \/ WorkerFinish

MainStep ==
  \/ updateCopyPasteProgress
  \/ conflictDialog
  \/ finishPasteOperation

NextPaste ==
  \/ \E destDir \in DestChoices : onMenuPaste(destDir)
  \/ MainStep
  \/ WorkerStep

Spec == InitPaste /\ [][NextPaste]_vars

(***************************************************************************)
(* Properties of the paste runs                                            *)
(***************************************************************************)
BusyNotice == "Another copy/move is already running."

PasteRequest == \E destDir \in DestChoices : onMenuPaste(destDir)

RejectedUnchanged == UNCHANGED <<fs, clipboard, pasteInProgress, eventQueue, w, faults, core, self, returned>>

\* C1 (as stated): a paste request issued while a run is in flight starts no
\* worker, leaves the busy flag, the filesystem, the queue and the running
\* worker unchanged, and reports the busy condition.
C1_BusyRequestReportsBusy ==
  [][(pasteInProgress /\ PasteRequest) => (RejectedUnchanged /\ ui'.notice = BusyNotice)]_vars

\* C1 (amended): a paste request issued while a run is in flight starts no
\* worker and leaves the busy flag, the filesystem, the queue and the running
\* worker unchanged; it reports the busy condition when its destination is an
\* existing writable directory, and the destination's error otherwise (the
\* destination is checked before the busy flag).
C1_BusyRequestRejected ==
  [][(pasteInProgress /\ PasteRequest) =>
       /\ RejectedUnchanged
       /\ ui'.started = ui.started
       /\ ui'.notice \in {BusyNotice, "Invalid directory", "Permission denied"}
       /\ \A destDir \in DestChoices :
            (onMenuPaste(destDir) /\ IsDir(fs, destDir) /\ IsWritable(fs, destDir))
              => ui'.notice = BusyNotice]_vars

\* A request was rejected as busy while the worker was copying.
C1_Witness ==
  /\ pasteInProgress
  /\ ui.notice = BusyNotice
  /\ w.pc = "copy"

Delivered == ui.progress.count = 1

Cancelled(errorText) ==
  \E k \in 1..Len(errorText) : errorText[k] = "Operation cancelled."

\* The progress callback receives a notification in this step.
Delivery == ui'.progress # ui.progress /\ ui'.progress.count = 1

\* C2, first part: the doneBytes delivered in a run never decrease and every
\* notification of a run carries the same totalBytes.
ProgressNonDecreasing ==
  [][(Delivery /\ Delivered) =>
       /\ ui'.progress.done >= ui.progress.done
       /\ ui'.progress.total = ui.progress.total]_vars

\* C2, second part: when a run ends in success or partial failure, the last
\* doneBytes delivered does not exceed totalBytes.
FinalProgressWithinTotal ==
  [][(ui'.completions # ui.completions /\ Delivered /\ ~Cancelled(ui'.errorText))
       => ui.progress.done <= ui.progress.total]_vars

\* C2: for any run that ends in success or partial failure the delivered
\* doneBytes are non-decreasing, every notification carries the same
\* totalBytes, and the final doneBytes does not exceed totalBytes.
C2_ProgressMonotonicity == ProgressNonDecreasing /\ FinalProgressWithinTotal

HasTempMarker(name) ==
  \E k \in 1..Len(name) :
    k + Len(TempMarker) - 1 <= Len(name) /\ SubSeq(name, k, k + Len(TempMarker) - 1) = TempMarker

\* The contents a complete read of the initial entries yields: the content of
\* each regular file, and the empty content of an entry that is neither a file,
\* a directory nor a link.
CompleteContents ==
  {PasteFs[p].data : p \in {q \in DOMAIN PasteFs : PasteFs[q].kind \in {"file", "other"}}}

\* C3: no file under a final name (a name that is no temporary sibling) ever
\* holds a partially written content: every such file holds a complete one.
C3_AtomicVisibility ==
  \A p \in DOMAIN fs :
    (fs[p].kind = "file" /\ ~HasTempMarker(FileNameOf(p))) => fs[p].data \in CompleteContents

\* A copy is half way: the temporary sibling holds a proper, non-empty prefix of
\* the source and the final name is absent.
C3_Witness ==
  /\ w.pc = "copy"
  /\ w.offset > 0
  /\ w.offset < FileSize(fs, w.src)
  /\ fs[w.tempPath].data # Stat(fs, w.src).data
  /\ w.dst \notin DOMAIN fs

\* C4: while the worker waits for the decision of a conflict it changes nothing
\* in the filesystem, credits no bytes and emits no notification; it leaves the
\* wait only after the controlling context has answered, and then acts on
\* exactly the answer: Cancel fails the call as cancelled, Skip returns without
\* a change, KeepBoth goes on with a fresh sibling name, Replace goes on after
\* the destination is removed (or fails when the removal fails).
C4_ConflictCallAndResponse ==
  [][w.pc = "await" =>
       /\ ~w.answered =>
            /\ fs' = fs
            /\ w'.pc = "await"
            /\ w'.doneBytes = w.doneBytes
            /\ Len(eventQueue') <= Len(eventQueue)
       /\ w'.pc # "await" =>
            /\ w.answered
            /\ CASE w.choice = "Cancel" ->
                      w'.pc = "ret" /\ w'.userCancelled /\ ~w'.ok /\ fs' = fs
                 [] w.choice = "Skip" ->
                      w'.pc = "ret" /\ ~w'.userCancelled /\ fs' = fs /\ w'.dst = w.dst
                 [] w.choice = "KeepBoth" ->
                      w'.pc = "body" /\ fs' = fs /\ w'.dst # w.dst /\ ~Exists(fs, w'.dst)
                 [] w.choice = "Replace" ->
                      \/ w'.pc = "body" /\ w'.dst = w.dst /\ ~Exists(fs', w.dst)
                      \/ w'.pc = "ret" /\ ~w'.ok /\ fs' = fs]_vars

\* The user answered Replace and the worker, resumed, has removed the destination.
C4_Witness ==
  /\ w.pc = "body"
  /\ w.answered
  /\ w.choice = "Replace"
  /\ ~Exists(fs, w.dst)

\* C7: once a conflict is answered with Cancel the worker changes the filesystem
\* no more (the source of a cancelled Move stays), starts no later sibling and
\* no later source, and hands over an outcome marked cancelled that does not
\* clear the clipboard.
C7_CancelIsFatal ==
  [][w.userCancelled =>
       /\ fs' = fs
       /\ w'.pc \in {"ret", "finish", "done"}
       /\ w'.pc # "done" => (w'.userCancelled /\ w'.i = w.i)
       /\ w'.pc = "done" =>
            LET completion == eventQueue'[Len(eventQueue')]
            IN  /\ completion.type = "finish"
                /\ Cancelled(completion.errorText)
                /\ ~completion.clear]_vars

\* A Move was cancelled at its first source: the loop is left with a later
\* source not attempted and both sources still in place.
C7_Witness ==
  /\ w.userCancelled
  /\ w.pc = "finish"
  /\ w.isCut
  /\ w.i < Len(w.sourcePaths)
  /\ \A k \in 1..Len(w.sourcePaths) : Exists(fs, w.sourcePaths[k])

\* The sum of the sizes of the entries of S.
RECURSIVE SumSizes(_, _)
SumSizes(f, S) ==
  IF S = {} THEN 0
  ELSE LET q == CHOOSE x \in S : TRUE
       IN  Len(f[q].data) + SumSizes(f, S \ {q})

\* The size of the subtree at p: the sizes of the regular files at and beneath
\* p; a symbolic link counts 0 and is not followed.
SubtreeBytes(f, p) ==
  SumSizes(f, {q \in DOMAIN f : (q = p \/ IsUnder(q, p)) /\ f[q].kind = "file"})

\* The worker acts on a Skip decision for a source that is a symbolic link, a
\* directory or a regular file.
SkipDecided ==
  /\ w.pc = "await"
  /\ w.answered
  /\ w.choice = "Skip"
  /\ w'.pc # "await"
  /\ IsSymLink(fs, w.src) \/ IsDir(fs, w.src) \/ IsFile(fs, w.src)

\* The node returns success at once and nothing of the filesystem changes.
SkipLeavesDestination ==
  /\ fs' = fs
  /\ w'.pc = "ret"
  /\ w'.ok
  /\ w'.stack = w.stack

\* C12: on a Skip decision the destination is left unchanged, the node returns
\* success without descending, and doneBytes advances by the size of the
\* source file, by the size of the subtree of a source directory, and by 0 for
\* a symbolic link.
C12_SkipAdvancesBySize ==
  [][SkipDecided =>
       /\ SkipLeavesDestination
       /\ w'.doneBytes = w.doneBytes
            + (IF IsSymLink(fs, w.src) THEN 0 ELSE SubtreeBytes(fs, w.src))]_vars

\* The same with the size totalBytesForPath gives, which adds the size of the
\* file a symbolic link inside the directory points to.
SkipAdvancesByScannedSize ==
  [][SkipDecided =>
       /\ SkipLeavesDestination
       /\ w'.doneBytes = w.doneBytes
            + (IF IsSymLink(fs, w.src) THEN 0 ELSE totalBytesForPath(fs, w.src).n)]_vars

\* A regular file was skipped and its size credited.
SkippedFile ==
  /\ w.pc = "ret"
  /\ w.ok
  /\ w.answered
  /\ w.choice = "Skip"
  /\ IsFile(fs, w.src)
  /\ ~IsSymLink(fs, w.src)
  /\ w.doneBytes >= FileSize(fs, w.src)
  /\ w.dst \in DOMAIN PasteFs
  /\ fs[w.dst] = PasteFs[w.dst]

\* The source loop of onMenuPaste collects failures: a top-level source that
\* fails without a cancellation adds one message to the error list and the
\* loop goes on with the next source; the completion carries an empty error
\* text exactly when no message was collected and the run was not cancelled.
PasteCollectsFailures ==
  [][/\ (w.pc = "ret" /\ w.stack = <<>> /\ w'.pc # "ret" /\ ~w'.ok /\ ~w.userCancelled) =>
          /\ w'.pc = "loop"
          /\ w'.i = w.i + 1
          /\ Len(w'.errors) = Len(w.errors) + 1
     /\ (w.pc = "finish" /\ w'.pc = "done") =>
          (eventQueue'[Len(eventQueue')].errorText = <<>>)
            = (w.errors = <<>> /\ ~w.userCancelled)]_vars

\* A source failed and a later source of the same run was copied after it.
PasteWentOnAfterFailure ==
  /\ w.pc = "copy"
  /\ w.i = 2
  /\ Len(w.errors) = 1
  /\ ~w.userCancelled

\* C10: the completion clears the clipboard exactly when the run was a Move with
\* an empty error list that was not cancelled; any other completion leaves the
\* clipboard as it is, and nothing else of a run changes the clipboard.
C10_ClipboardClearedIffCleanMove ==
  [][/\ (w.pc = "finish" /\ w'.pc = "done") =>
          eventQueue'[Len(eventQueue')].clear
            = (w.isCut /\ w.errors = <<>> /\ ~w.userCancelled)
     /\ ui'.completions # ui.completions =>
          IF Head(eventQueue).clear THEN clipboard'.urls = <<>> ELSE clipboard' = clipboard
     /\ clipboard' # clipboard => ui'.completions # ui.completions]_vars

\* A Move completed without an error and the clipboard is empty.
C10_Witness ==
  /\ ui.completions = 1
  /\ ui.cleared
  /\ ui.errorText = <<>>
  /\ clipboard.urls = <<>>

(***************************************************************************)
(* The paste runs under fair scheduling: the worker thread runs while it   *)
(* can, and the event loop of the controlling context handles what is      *)
(* queued (the user answers an open conflict dialog).                      *)
(***************************************************************************)
FairSpec == InitPaste /\ [][NextPaste]_vars /\ WF_vars(WorkerStep) /\ WF_vars(MainStep)

HomePath == << <<"h">> >>

trashFilesPath ==
  HomePath \o << <<".", "l", "o", "c", "a", "l">>, <<"s", "h", "a", "r", "e">>,
                 <<"T", "r", "a", "s", "h">>, <<"f", "i", "l", "e", "s">> >>

trashInfoPath ==
  HomePath \o << <<".", "l", "o", "c", "a", "l">>, <<"s", "h", "a", "r", "e">>,
                 <<"T", "r", "a", "s", "h">>, <<"i", "n", "f", "o">> >>

\* A variant that tests the name alone: the trash holds an item so named.
isInsideTrashByName(f, path) ==
  FilePath(trashFilesPath, FileNameOf(normalizePathForFs(f, path))) \in DOMAIN f

\* isInsideTrashFiles: the path, normalised, is the trash files root or lies
\* below it.
isInsideTrashFiles(f, path) ==
  LET normalized == normalizePathForFs(f, path)
      trashRoot == normalizePathForFs(f, trashFilesPath)
  IN  normalized = trashRoot \/ IsUnder(normalized, trashRoot)

buildUniquePath(f, destinationPath) == makeUniqueKeepBothPath(f, destinationPath)

\* The absolute path as a string: "/" before every name.
RECURSIVE PathString(_)
PathString(p) ==
  IF p = <<>> THEN <<>> ELSE PathString(ParentOf(p)) \o <<"/">> \o FileNameOf(p)

\* The path a string names: its non-empty segments between slashes.
RECURSIVE ParsePath(_, _, _)
ParsePath(chars, i, name) ==
  IF i > Len(chars) THEN (IF name = <<>> THEN <<>> ELSE <<name>>)
  ELSE IF chars[i] = "/"
  THEN (IF name = <<>> THEN <<>> ELSE <<name>>) \o ParsePath(chars, i + 1, <<>>)
  ELSE ParsePath(chars, i + 1, Append(name, chars[i]))

\* The characters QUrl::toPercentEncoding leaves as they are when "/" is excluded.
Unreserved(c) ==
  \/ CharCode(c) \in CharCode("a")..CharCode("z")
  \/ CharCode(c) \in CharCode("A")..CharCode("Z")
  \/ CharCode(c) \in CharCode("0")..CharCode("9")
  \/ c \in {"-", ".", "_", "~", "/"}

\* QUrl::toPercentEncoding(text, "/"): every other character becomes %XX.
RECURSIVE toPercentEncoding(_)
toPercentEncoding(chars) ==
  IF chars = <<>> THEN <<>>
  ELSE LET c == Head(chars)
           code == CharCode(c)
       IN  (IF Unreserved(c) THEN <<c>>
            ELSE <<"%", HexChars[(code \div 16) + 1], HexChars[(code % 16) + 1]>>)
           \o toPercentEncoding(Tail(chars))

IsHexChar(c) == \E k \in 1..Len(HexChars) : HexChars[k] = c

HexValue(c) == (CHOOSE k \in 1..Len(HexChars) : HexChars[k] = c) - 1

\* QUrl::fromPercentEncoding: %XX becomes the character of code XX; a percent
\* sign that no two hex digits follow stays.
RECURSIVE fromPercentEncoding(_, _)
fromPercentEncoding(chars, i) ==
  IF i > Len(chars) THEN <<>>
  ELSE IF /\ chars[i] = "%"
          /\ i + 2 <= Len(chars)
          /\ IsHexChar(chars[i + 1]) /\ IsHexChar(chars[i + 2])
          /\ 16 * HexValue(chars[i + 1]) + HexValue(chars[i + 2]) \in 32..126
  THEN <<CharOf(16 * HexValue(chars[i + 1]) + HexValue(chars[i + 2]))>>
       \o fromPercentEncoding(chars, i + 3)
  ELSE <<chars[i]>> \o fromPercentEncoding(chars, i + 1)

\* The line feed of the sidecar text.
LF == "LF"

TrashInfoSuffix == <<".", "t", "r", "a", "s", "h", "i", "n", "f", "o">>

PathKey == <<"P", "a", "t", "h", "=">>

\* QDateTime::toString("yyyy-MM-ddTHH:mm:ss") of a clock value within the
\* first second of the epoch.
DeletionDate(ms) ==
  <<"1", "9", "7", "0", "-", "0", "1", "-", "0", "1", "T", "0", "0", ":", "0", "0", ":", "0">>
  \o NumberChars(ms \div 1000)

\* The text moveToTrash writes into the sidecar.
TrashInfoText(targetPath, ms) ==
  <<"[", "T", "r", "a", "s", "h", " ", "I", "n", "f", "o", "]", LF>>
  \o PathKey \o toPercentEncoding(PathString(targetPath)) \o <<LF>>
  \o <<"D", "e", "l", "e", "t", "i", "o", "n", "D", "a", "t", "e", "=">>
  \o DeletionDate(ms) \o <<LF>>

\* QTextStream::readLine from position i: the line and the position after it.
RECURSIVE LineEnd(_, _)
LineEnd(text, i) ==
  IF i > Len(text) \/ text[i] = LF THEN i ELSE LineEnd(text, i + 1)

\* The loop of restoreFromTrash over the lines: the decoded value of the first
\* line that starts with "Path=", the empty string when there is none.
RECURSIVE ReadOriginalPath(_, _)
ReadOriginalPath(text, i) ==
  IF i > Len(text) THEN <<>>
  ELSE LET line == SubSeq(text, i, LineEnd(text, i) - 1)
       IN  IF StartsWith(line, PathKey)
           THEN fromPercentEncoding(SubSeq(line, Len(PathKey) + 1, Len(line)), 1)
           ELSE ReadOriginalPath(text, LineEnd(text, i) + 1)

\* copyRecursivelyWithProgress run to its end with a resolver that answers
\* KeepBoth, onto a destination that does not exist: the listed entries of the
\* source tree are recreated under dst.
RECURSIVE copyRecursively(_, _, _)
RECURSIVE CopyEntries(_, _, _, _)
CopyEntries(f, entries, k, dst) ==
  IF k > Len(entries) THEN f
  ELSE CopyEntries(copyRecursively(f, entries[k], FilePath(dst, FileNameOf(entries[k]))),
                   entries, k + 1, dst)

copyRecursively(f, src, dst) ==
  IF IsSymLink(f, src) THEN WithEntry(f, dst, LinkEntry(f[src].target))
  ELSE IF IsDir(f, src)
  THEN CopyEntries(WithEntry(f, dst, DirEntry), entryInfoList(f, src), 1, dst)
  ELSE WithEntry(f, dst, FileEntry(Stat(f, src).data))

\* QFile::rename / QDir::rename: whether the plain rename can succeed.
CanRename(f, from, to) ==
  /\ from \in DOMAIN f /\ to \notin DOMAIN f /\ IsDir(f, ParentOf(to)) /\ ~IsUnder(to, from)
  /\ IsWritable(f, ParentOf(from)) /\ IsWritable(f, ParentOf(to))

TrashFaults == {"none", "rename", "remove", "metadata"}

Outcome(f, ok, error) == [fs |-> f, ok |-> ok, error |-> error]

\* Kitaplik::moveToTrash: the filesystem it leaves, its result and its message.
\* fault names the one step that fails: the rename (as across devices), the
\* removal of the original after the copy, or the opening of the sidecar.
moveToTrash(f, targetPath, fault, ms) ==
  LET made == MkPath(MkPath(f, trashFilesPath), trashInfoPath)
      name == FileNameOf(targetPath)
      plainName == IF IsBlank(name) THEN <<"i", "t", "e", "m", "-">> \o NumberChars(ms)
                   ELSE name
      plainPath == FilePath(trashFilesPath, plainName)
      destinationInTrash == IF Exists(made, plainPath) THEN buildUniquePath(made, plainPath)
                            ELSE plainPath
      trashName == FileNameOf(destinationInTrash)
      infoFile == FilePath(trashInfoPath, trashName \o TrashInfoSuffix)
      renamed == fault # "rename" /\ CanRename(made, targetPath, destinationInTrash)
      copied == copyRecursively(made, targetPath, destinationInTrash)
      moved == IF renamed THEN Renamed(made, targetPath, destinationInTrash)
               ELSE removeRecursively(copied, targetPath)
  IN  IF ~renamed /\ (\/ ~Exists(made, targetPath)
                       \/ destinationInTrash \in DOMAIN made
                       \/ ~IsWritable(made, trashFilesPath))
      THEN Outcome(made, FALSE, "Failed to move to trash")
      ELSE IF ~renamed /\ (fault = "remove" \/ ~Removable(copied, targetPath))
      THEN Outcome(copied, FALSE, "Failed to remove original")
      ELSE IF fault = "metadata" \/ IsDir(moved, infoFile) \/ ~IsWritable(moved, trashInfoPath)
      THEN Outcome(moved, TRUE, "Moved to trash, but failed to write metadata for restore")
      ELSE Outcome(WithEntry(moved, infoFile, FileEntry(TrashInfoText(targetPath, ms))),
                   TRUE, "")

\* A variant that has removed the sidecar before it moves the item back.
RestoreFailedSidecarGone(f, infoFile, error) == Outcome(Without(f, infoFile), FALSE, error)

\* What restoreFromTrash leaves when it returns false: the tree as it stands,
\* the sidecar untouched.
RestoreFailed(f, infoFile, error) == Outcome(f, FALSE, error)

\* Kitaplik::restoreFromTrash.
restoreFromTrash(f, trashPath, fault) ==
  LET normalizedTrashPath == normalizePathForFs(f, trashPath)
      trashName == FileNameOf(normalizedTrashPath)
      infoFile == FilePath(trashInfoPath, trashName \o TrashInfoSuffix)
      originalPath == ReadOriginalPath(Stat(f, infoFile).data, 1)
      normalizedOriginal == normalizePathForFs(f, ParsePath(originalPath, 1, <<>>))
      destinationPath == IF Exists(f, normalizedOriginal)
                         THEN buildUniquePath(f, normalizedOriginal)
                         ELSE normalizedOriginal
      parentDir == ParentOf(destinationPath)
      canMake == \A k \in 0..Len(parentDir) :
                   SubSeq(parentDir, 1, k) \in DOMAIN f => IsDir(f, SubSeq(parentDir, 1, k))
      nearestDir == NearestAncestor(f, parentDir)
      made == MkPath(f, parentDir)
      renamed == fault # "rename" /\ CanRename(made, normalizedTrashPath, destinationPath)
      copied == copyRecursively(made, normalizedTrashPath, destinationPath)
      moved == IF renamed THEN Renamed(made, normalizedTrashPath, destinationPath)
               ELSE removeRecursively(copied, normalizedTrashPath)
  IN  IF ~isInsideTrashFiles(f, normalizedTrashPath)
      THEN RestoreFailed(f, infoFile, "Not a trash item")
      ELSE IF ~IsFile(f, infoFile) \/ fault = "metadata"
      THEN RestoreFailed(f, infoFile, "Missing restore metadata")
      ELSE IF IsBlank(originalPath)
      THEN RestoreFailed(f, infoFile, "Invalid restore metadata")
      ELSE IF ~Exists(f, parentDir) /\ (~canMake \/ ~IsWritable(f, nearestDir))
      THEN RestoreFailed(f, infoFile, "Failed to recreate parent directory")
      ELSE IF ~renamed /\ (\/ ~Exists(made, normalizedTrashPath)
                            \/ destinationPath \in DOMAIN made
                            \/ ~IsWritable(made, parentDir))
      THEN RestoreFailed(made, infoFile, "Failed to restore")
      ELSE IF ~renamed /\ (fault = "remove" \/ ~Removable(copied, normalizedTrashPath))
      THEN RestoreFailed(copied, infoFile, "Failed to remove trashed item")
      ELSE IF ~IsWritable(moved, trashInfoPath)
      THEN Outcome(moved, TRUE, "")
      ELSE Outcome(Without(moved, infoFile), TRUE, "")

\* The message of removeRecursively for a trash root that is a directory:
\* "Failed to delete directory: <path>".
DeleteDirectoryError(root) ==
  IF root = trashFilesPath THEN "Failed to delete directory: /h/.local/share/Trash/files"
  ELSE "Failed to delete directory: /h/.local/share/Trash/info"

\* A variant that goes on as if the root had been deleted.
DeleteRootIgnored(f, root) == Outcome(f, TRUE, "")

\* emptyTrash returns false with the message of the root it could not delete;
\* what is already deleted stays deleted.
DeleteRootFailed(f, root) == Outcome(f, FALSE, DeleteDirectoryError(root))

\* Kitaplik::emptyTrash; fault "remove" fails the removal of the files root,
\* fault "metadata" the removal of the info root.
emptyTrash(f, fault) ==
  LET noFiles == removeRecursively(f, trashFilesPath)
      noInfo == removeRecursively(noFiles, trashInfoPath)
  IN  IF fault = "remove" /\ Exists(f, trashFilesPath)
      THEN DeleteRootFailed(f, trashFilesPath)
      ELSE IF Exists(f, trashFilesPath) /\ ~Removable(f, trashFilesPath)
      THEN DeleteRootFailed(RemovedWhatCan(f, trashFilesPath), trashFilesPath)
      ELSE IF fault = "metadata" /\ Exists(f, trashInfoPath)
      THEN DeleteRootFailed(noFiles, trashInfoPath)
      ELSE IF Exists(f, trashInfoPath) /\ ~Removable(noFiles, trashInfoPath)
      THEN DeleteRootFailed(RemovedWhatCan(noFiles, trashInfoPath), trashInfoPath)
      ELSE IF ~IsWritable(noInfo, NearestAncestor(noInfo, trashFilesPath))
      THEN Outcome(noInfo, FALSE, "Failed to recreate trash directories.")
      ELSE Outcome(MkPath(MkPath(noInfo, trashFilesPath), trashInfoPath), TRUE, "")

\* The fault a handler may meet: none once the budget is spent.
TrashFaultChoices == IF faults < MaxFaults THEN TrashFaults ELSE {"none"}

ChargeFault(fault) == faults' = faults + (IF fault = "none" THEN 0 ELSE 1)

\* A handler of the controlling context ends: the filesystem it leaves and the
\* warning box it showed.
Shown(f, notice) ==
  /\ fs' = f
  /\ ui' = [ui EXCEPT !.notice = notice]
  /\ UNCHANGED <<clipboard, pasteInProgress, eventQueue, w, core, self, returned>>

\* Kitaplik::onMenuDelete; confirmed is the answer to the question box.
onMenuDelete(targetPath, confirmed, fault, ms) ==
  LET normalizedTargetPath == normalizePathForFs(fs, targetPath)
      permanentDelete == isInsideTrashFiles(fs, normalizedTargetPath)
      writeError == ensureWritableTarget(fs, normalizedTargetPath)
      trashed == moveToTrash(fs, normalizedTargetPath, fault, ms)
  IN  IF ~confirmed THEN fault = "none" /\ UNCHANGED vars
      ELSE IF writeError # "" THEN fault = "none" /\ Shown(fs, writeError) /\ UNCHANGED faults
      ELSE IF permanentDelete
      THEN /\ fault \in {"none", "remove"}
           /\ ChargeFault(fault)
           /\ IF fault = "remove" THEN Shown(fs, "Failed to delete")
              ELSE Shown(removeRecursively(fs, normalizedTargetPath), "none")
      ELSE /\ ChargeFault(fault)
           /\ Shown(trashed.fs, IF trashed.ok THEN "none" ELSE trashed.error)

\* Kitaplik::onMenuRestoreFromTrash.
onMenuRestoreFromTrash(trashPath, fault) ==
  LET restored == restoreFromTrash(fs, trashPath, fault)
  IN  /\ ChargeFault(fault)
      /\ Shown(restored.fs, IF restored.ok THEN "none" ELSE restored.error)

\* Kitaplik::onMenuEmptyTrash.
onMenuEmptyTrash(confirmed, fault) ==
  LET emptied == emptyTrash(fs, fault)
  IN  IF ~confirmed THEN fault = "none" /\ UNCHANGED vars
      ELSE /\ fault # "rename"
           /\ ChargeFault(fault)
           /\ Shown(emptied.fs, IF emptied.ok THEN "none" ELSE emptied.error)

(***************************************************************************)
(* The trash specification                                                 *)
(***************************************************************************)
\* Entries the filesystem may hold at most (the trash dates every name, so
\* trashing and putting back new files would grow it without end).
MaxEntries == 13

\* The tree the trash handlers start from: an empty trash in the home /h and
\*   /h/a   /h/%41/a   /h/t
TrashFs ==
  LET h == <<"h">>  a == <<"a">>  k == <<"%", "4", "1">>  t == <<"t">>
  IN  MkPath(MkPath((<<>> :> DirEntry) @@ (<<h>> :> DirEntry), trashFilesPath), trashInfoPath)
      @@ (<<h, a>> :> FileEntry(<<"a1">>))
      @@ (<<h, k>> :> DirEntry)
      @@ (<<h, k, a>> :> FileEntry(<<"a2">>))
      @@ (<<h, t>> :> FileEntry(<<"t1">>))

\* The files the user deletes and later finds in the trash.
Deletable == { <<<<"h">>, <<"a">>>>, <<<<"h">>, <<"%", "4", "1">>, <<"a">>>> }

\* The items of the trash view.
TrashItems(f) == ChildrenOf(f, trashFilesPath)

\* What may come to stand at the path of a trashed file meanwhile: a new file
\* or a symbolic link to /h/t.
NewEntries == {FileEntry(<<"n1">>), LinkEntry(<<<<"h">>, <<"t">>>>)}

\* Something else (the user in a shell, another program) puts a new entry at
\* the vacant path of a deleted file.
Reoccupy(path, entry) ==
  /\ path \notin DOMAIN fs
  /\ IsDir(fs, ParentOf(path))
  /\ Cardinality(DOMAIN fs) < MaxEntries
  /\ fs' = WithEntry(fs, path, entry)
  /\ UNCHANGED <<clipboard, pasteInProgress, eventQueue, ui, w, faults, core, self, returned>>

InitTrash ==
  /\ fs = TrashFs
  /\ clipboard = [urls |-> <<>>, cut |-> FALSE]
  /\ pasteInProgress = FALSE
  /\ eventQueue = <<>>
  /\ ui = IdleUi
  /\ w = IdleWorker
  /\ faults = 0
  /\ core = IdleCore
  /\ self = "alive"
  /\ returned = <<>>

NextTrash ==
  \/ \E targetPath \in {q \in Deletable : q \in DOMAIN fs /\ ~IsSymLink(fs, q)} \cup TrashItems(fs),
        confirmed \in BOOLEAN, fault \in TrashFaultChoices, ms \in ClockValues :
       onMenuDelete(targetPath, confirmed, fault, ms)
  \/ \E trashPath \in TrashItems(fs) \cup {<<<<"h">>, <<"t">>>>}, fault \in TrashFaultChoices :
       onMenuRestoreFromTrash(trashPath, fault)
  \/ \E confirmed \in BOOLEAN, fault \in TrashFaultChoices : onMenuEmptyTrash(confirmed, fault)
  \/ \E path \in Deletable, entry \in NewEntries : Reoccupy(path, entry)

TrashSpec == InitTrash /\ [][NextTrash]_vars

(***************************************************************************)
(* Properties of the trash                                                 *)
(***************************************************************************)
SidecarOf(item) == FilePath(trashInfoPath, FileNameOf(item) \o TrashInfoSuffix)

\* Every item directly under the files root has its sidecar under the info
\* root, and every entry under the info root is the sidecar of such an item.
TrashConsistent ==
  /\ \A item \in TrashItems(fs) : IsFile(fs, SidecarOf(item))
  /\ \A info \in ChildrenOf(fs, trashInfoPath) :
       \E item \in TrashItems(fs) : info = SidecarOf(item)

\* C5: after any sequence of move-to-trash, restore, permanent delete of a
\* trashed item and empty-trash in which no I/O operation failed, every item
\* under the files root has exactly one matching sidecar under the info root
\* and no sidecar is without its item.
C5_TrashTwoRootConsistency == faults = 0 => TrashConsistent

\* The entries at and beneath p, by their paths relative to p.
Subtree(f, p) ==
  [rel \in {SubSeq(q, Len(p) + 1, Len(q)) : q \in {r \in DOMAIN f : r = p \/ IsUnder(r, p)}}
     |-> f[p \o rel]]

\* The original path the sidecar of a trashed item records.
RecordedPath(f, item) == ParsePath(ReadOriginalPath(Stat(f, SidecarOf(item)).data, 1), 1, <<>>)

\* The step trashes the file at path without a failure.
TrashingOf(path) ==
  /\ path \in DOMAIN fs
  /\ \E ms \in ClockValues : onMenuDelete(path, TRUE, "none", ms)

\* The step restores the trashed item with success.
RestoreOf(item) ==
  /\ item \in TrashItems(fs)
  /\ \E fault \in TrashFaults : onMenuRestoreFromTrash(item, fault)
  /\ item \notin DOMAIN fs'

\* C6: trashing p leaves an item with the content of p whose sidecar records p
\* (the percent-encoded path decodes back to p), and a successful restore of an
\* item puts its content back at the recorded path p, or at the KeepBoth
\* sibling of p when p is occupied again; afterwards the item is no longer
\* under the files root and its sidecar is gone.
C6_TrashRoundTrip ==
  [][/\ \A path \in Deletable :
          TrashingOf(path) =>
            \E item \in TrashItems(fs') \ TrashItems(fs) :
              /\ Subtree(fs', item) = Subtree(fs, path)
              /\ RecordedPath(fs', item) = path
     /\ \A item \in TrashItems(fs) :
          RestoreOf(item) =>
            LET p == RecordedPath(fs, item)
                place == IF p \in DOMAIN fs THEN makeUniqueKeepBothPath(fs, p) ELSE p
            IN  /\ place \in DOMAIN fs'
                /\ Subtree(fs', place) = Subtree(fs, item)
                /\ SidecarOf(item) \notin DOMAIN fs']_vars


(***************************************************************************)
(* Core::FileOperations: the asynchronous copy of the core library         *)
(***************************************************************************)
\* PathValidator::DANGEROUS_COMPONENTS.
DANGEROUS_COMPONENTS ==
  { <<".", ".">>, <<".">>, <<"~">>, <<"C", "O", "N">>, <<"P", "R", "N">>,
    <<"A", "U", "X">>, <<"N", "U", "L">> }
  \cup {<<"C", "O", "M", DigitChars[d + 1]>> : d \in 1..9}
  \cup {<<"L", "P", "T", DigitChars[d + 1]>> : d \in 1..9}

\* The text contains "../": a component that ends in ".." and is followed by
\* another one.  (The text of a path of the model starts with "/", never with
\* "..", and the names of the model hold no backslash.)
hasPathTraversal(path) ==
  \E i \in 1..(Len(path) - 1) :
    Len(path[i]) >= 2 /\ SubSeq(path[i], Len(path[i]) - 1, Len(path[i])) = <<".", ".">>

containsDangerousComponents(path) ==
  \E i \in 1..Len(path) : path[i] \in DANGEROUS_COMPONENTS

\* PathValidator::validatePath: NoPath for a refused path, the normalised path
\* otherwise.  The paths of the model are absolute, shorter than
\* MAX_PATH_LENGTH and free of control characters, and lexically_normal leaves
\* a path without "." and ".." components as it is.
validatePath(path) ==
  IF hasPathTraversal(path) THEN NoPath
  ELSE IF containsDangerousComponents(path) THEN NoPath
  ELSE path

\* The task ends with this value of the promise.
Promise(rec, result) == [rec EXCEPT !.pc = "returned", !.result = result]

\* FileOperations::copyFilesAsync: the caller's side.  startOperation creates
\* the operation and its thread and returns.
copyFilesAsync(sources, destination, overwrite) ==
  /\ core.pc = "idle"
  /\ core' = [IdleCore EXCEPT !.pc = "destination", !.sources = sources,
                              !.destination = destination, !.overwrite = overwrite,
                              !.slot = "record", !.refs = "record"]
  /\ UNCHANGED <<fs, clipboard, pasteInProgress, eventQueue, ui, w, faults, self, returned>>

\* The task validates the destination and creates it when it is missing.
CoreDestination ==
  /\ core.pc = "destination"
  /\ \E fail \in FaultChoices :
       /\ Charge(fail)
       /\ LET destPath == validatePath(core.destination)
          IN  IF destPath = NoPath
              THEN /\ ~fail
                   /\ core' = Promise(core, "Invalid destination")
                   /\ fs' = fs
              ELSE IF ~Exists(fs, destPath)
              THEN IF fail \/ ~IsDir(fs, nearestExistingPath(fs, destPath))
                   THEN /\ core' = Promise(core, "Unexpected error")
                        /\ fs' = fs
                   ELSE /\ core' = [core EXCEPT !.pc = "size", !.k = 1]
                        /\ fs' = MkPath(fs, destPath)
              ELSE IF ~IsDir(fs, destPath)
              THEN /\ ~fail
                   /\ core' = Promise(core, "Destination is not a directory")
                   /\ fs' = fs
              ELSE /\ ~fail
                   /\ core' = [core EXCEPT !.pc = "size", !.k = 1]
                   /\ fs' = fs
  /\ UNCHANGED <<clipboard, pasteInProgress, eventQueue, ui, w, self, returned>>

\* One iteration of the loop that sums the sizes of the sources.
CoreSize ==
  /\ core.pc = "size"
  /\ IF core.k > Len(core.sources)
     THEN core' = [core EXCEPT !.pc = "copy", !.k = 1]
     ELSE LET srcPath == validatePath(core.sources[core.k])
          IN  IF srcPath = NoPath THEN core' = Promise(core, "Invalid source")
              ELSE IF ~Exists(fs, srcPath) THEN core' = Promise(core, "Source not found")
              ELSE core' = [core EXCEPT !.k = @ + 1,
                              !.totalSize = @ + (IF IsFile(fs, srcPath)
                                                 THEN FileSize(fs, srcPath) ELSE 0)]
  /\ UNCHANGED <<fs, clipboard, pasteInProgress, eventQueue, ui, w, faults, self, returned>>

\* std::filesystem::copy_file(from, to, overwrite_existing): NoPath when it
\* throws, the file written otherwise.  Both paths are followed through
\* symbolic links; from must be a regular file, to a regular file other than
\* from or a missing name in an existing directory.
CopyFileTarget(f, from, to) ==
  LET target == FollowLinks(f, to, Cardinality(DOMAIN f))
  IN  IF ~IsFile(f, from) THEN NoPath
      ELSE IF target \in DOMAIN f
      THEN IF f[target].kind = "file"
              /\ target # FollowLinks(f, from, Cardinality(DOMAIN f))
           THEN target ELSE NoPath
      ELSE IF IsDir(f, ParentOf(target)) THEN target ELSE NoPath

\* One iteration of the copy loop; after the last source the promise is set
\* to success.  A directory source is created at the destination, not copied.
CoreCopy ==
  /\ core.pc = "copy"
  /\ IF core.k > Len(core.sources)
     THEN /\ core' = Promise(core, "Success")
          /\ UNCHANGED <<fs, faults>>
     ELSE IF core.cancelled
     THEN /\ core' = Promise(core, "Operation cancelled")
          /\ UNCHANGED <<fs, faults>>
     ELSE \E fail \in FaultChoices :
            LET srcPath == validatePath(core.sources[core.k])
                finalDest == FilePath(validatePath(core.destination), FileNameOf(srcPath))
                reached == [core EXCEPT !.attempted = @ + 1]
                target == CopyFileTarget(fs, srcPath, finalDest)
            IN  IF IsDir(fs, srcPath)
                THEN /\ Charge(fail)
                     /\ IF fail \/ (Exists(fs, finalDest) /\ ~IsDir(fs, finalDest))
                        THEN /\ core' = Promise(reached, "Copy failed")
                             /\ fs' = fs
                        ELSE /\ core' = [reached EXCEPT !.k = @ + 1]
                             /\ fs' = IF Exists(fs, finalDest) THEN fs
                                      ELSE MkPath(fs, finalDest)
                ELSE IF Exists(fs, finalDest) /\ ~core.overwrite
                THEN /\ ~fail
                     /\ core' = Promise(reached, "File already exists")
                     /\ UNCHANGED <<fs, faults>>
                ELSE /\ Charge(fail)
                     /\ IF fail \/ target = NoPath
                        THEN /\ core' = Promise(reached, "Copy failed")
                             /\ fs' = fs
                        ELSE /\ core' = [reached EXCEPT !.k = @ + 1,
                                           !.doneSize = @ + FileSize(fs, srcPath)]
                             /\ fs' = WithEntry(fs, target, FileEntry(Stat(fs, srcPath).data))
  /\ UNCHANGED <<clipboard, pasteInProgress, eventQueue, ui, w, self, returned>>

\* A variant that clears the cancellation flag when the task has returned.
CoreCompletedClearsCancel ==
  /\ core.pc = "returned"
  /\ core' = [core EXCEPT !.pc = "done", !.completed = TRUE, !.cancelled = FALSE]
  /\ UNCHANGED <<fs, clipboard, pasteInProgress, eventQueue, ui, w, faults, self, returned>>

\* The task returned: the thread of the operation marks it completed, through
\* the pointer operations_[id] holds by then.
CoreCompleted ==
  /\ core.pc = "returned"
  /\ core' = IF core.slot = "record"
             THEN [core EXCEPT !.pc = "done", !.completed = TRUE]
             ELSE [core EXCEPT !.pc = "crashed"]
  /\ UNCHANGED <<fs, clipboard, pasteInProgress, eventQueue, ui, w, faults, self, returned>>

\* OperationManager::cancelOperation of the operation, once it exists.
cancelOperation ==
  /\ core.pc # "idle"
  /\ ~core.cancelled
  /\ core' = [core EXCEPT !.cancelled = TRUE]
  /\ UNCHANGED <<fs, clipboard, pasteInProgress, eventQueue, ui, w, faults, self, returned>>

\* The tree the core copies start from:
\*   /c/a (2 blocks)   /c/b (1 block)   /c/D/x (1 block)   /c/o (a socket)
\*   /t/a (1 block)    /t/D/x (1 block)
CoreFs ==
  LET c == <<"c">>  t == <<"t">>  a == <<"a">>  b == <<"b">>
      D == <<"D">>  x == <<"x">>  o == <<"o">>
  IN  (<<>> :> DirEntry)
      @@ (<<c>> :> DirEntry)
      @@ (<<c, a>> :> FileEntry(<<"a1", "a2">>))
      @@ (<<c, b>> :> FileEntry(<<"b1">>))
      @@ (<<c, D>> :> DirEntry)
      @@ (<<c, D, x>> :> FileEntry(<<"x1">>))
      @@ (<<c, o>> :> OtherEntry)
      @@ (<<t>> :> DirEntry)
      @@ (<<t, a>> :> FileEntry(<<"a0">>))

\* The source lists handed to copyFilesAsync.
CoreSources ==
  LET c == <<"c">>  a == <<"a">>  b == <<"b">>  D == <<"D">>  o == <<"o">>
  IN  { << <<c, a>>, <<c, b>> >>,
        << <<c, b>>, <<c, D>>, <<c, a>> >>,
        << <<c, o>>, <<c, b>> >>,
        << <<c, b>>, <<c, <<"m">>>> >>,
        << <<c, <<"~">>>>, <<c, b>> >> }

\* The destinations handed to copyFilesAsync: an existing directory, a missing
\* one, a file, and a name PathValidator refuses.
CoreDestinations ==
  { << <<"t">> >>, << <<"n">> >>, << <<"c">>, <<"b">> >>, << <<"t">>, <<"C", "O", "N">> >> }

InitCore ==
  /\ fs = CoreFs
  /\ clipboard = [urls |-> <<>>, cut |-> FALSE]
  /\ pasteInProgress = FALSE
  /\ eventQueue = <<>>
  /\ ui = IdleUi
  /\ w = IdleWorker
  /\ faults = 0
  /\ core = IdleCore
  /\ self = "alive"
  /\ returned = <<>>

NextCore ==
  \/ \E sources \in CoreSources, destination \in CoreDestinations, overwrite \in BOOLEAN :
       copyFilesAsync(sources, destination, overwrite)
  \/ CoreDestination
  \/ CoreSize
  \/ CoreCopy
  \/ CoreCompleted
  \/ cancelOperation

CoreSpec == InitCore /\ [][NextCore]_vars

\* C8: a failure of one source, other than a cancellation, does not stop the
\* run: once the copy loop of copyFilesAsync has begun, a run that was not
\* cancelled ends only after every source of the list has been attempted.
C8_FailureDoesNotStopTheRun ==
  (core.pc = "done" /\ core.attempted > 0 /\ core.result # "Operation cancelled")
    => core.attempted = Len(core.sources)


(***************************************************************************)
(* Core::FileOperations::moveFilesAsync                                    *)
(***************************************************************************)
\* FileOperations::moveFilesAsync: the caller's side.  The task of the move
\* starts the copy with the same arguments and waits for its future.
moveFilesAsync(sources, destination, overwrite) ==
  /\ core.pc = "idle"
  /\ core' = [IdleCore EXCEPT !.pc = "destination", !.sources = sources,
                              !.destination = destination, !.overwrite = overwrite,
                              !.movePc = "get", !.slot = "record", !.refs = "record"]
  /\ UNCHANGED <<fs, clipboard, pasteInProgress, eventQueue, ui, w, faults, self, returned>>

\* copyFuture.get() returned: a copy that failed is the result of the move,
\* a copy that succeeded is followed by the delete loop.
MoveGet ==
  /\ core.movePc = "get"
  /\ core.result # ""
  /\ core' = IF core.result # "Success"
             THEN [core EXCEPT !.movePc = "returned", !.moveResult = core.result]
             ELSE [core EXCEPT !.movePc = "delete", !.moveK = 1]
  /\ UNCHANGED <<fs, clipboard, pasteInProgress, eventQueue, ui, w, faults, self, returned>>

\* One iteration of the delete loop; after the last source the promise is
\* set to success.  An exception of remove_all is caught and dropped.
MoveDelete ==
  /\ core.movePc = "delete"
  /\ IF core.moveK > Len(core.sources)
     THEN /\ core' = [core EXCEPT !.movePc = "returned", !.moveResult = "Success"]
          /\ UNCHANGED <<fs, faults>>
     ELSE IF core.moveCancelled
     THEN /\ core' = [core EXCEPT !.movePc = "returned",
                                  !.moveResult = "Operation cancelled"]
          /\ UNCHANGED <<fs, faults>>
     ELSE \E fail \in FaultChoices :
            LET srcPath == validatePath(core.sources[core.moveK])
            IN  /\ Charge(fail)
                /\ core' = [core EXCEPT !.moveK = @ + 1]
                /\ fs' = IF srcPath = NoPath \/ fail THEN fs ELSE Without(fs, srcPath)
  /\ UNCHANGED <<clipboard, pasteInProgress, eventQueue, ui, w, self, returned>>

\* The task of the move returned: its thread marks the operation completed.
MoveCompleted ==
  /\ core.movePc = "returned"
  /\ core' = [core EXCEPT !.movePc = "done"]
  /\ UNCHANGED <<fs, clipboard, pasteInProgress, eventQueue, ui, w, faults, self, returned>>

\* OperationManager::cancelOperation of the operation of the move.
cancelMoveOperation ==
  /\ core.movePc \notin {"none", "done"}
  /\ ~core.moveCancelled
  /\ core' = [core EXCEPT !.moveCancelled = TRUE]
  /\ UNCHANGED <<fs, clipboard, pasteInProgress, eventQueue, ui, w, faults, self, returned>>

NextMove ==
  \/ \E sources \in CoreSources, destination \in CoreDestinations, overwrite \in BOOLEAN :
       moveFilesAsync(sources, destination, overwrite)
  \/ CoreDestination
  \/ CoreSize
  \/ CoreCopy
  \/ CoreCompleted
  \/ cancelOperation
  \/ MoveGet
  \/ MoveDelete
  \/ MoveCompleted
  \/ cancelMoveOperation

MoveSpec == InitCore /\ [][NextMove]_vars

\* The sources of the move that are still in place.
MoveLeftBehind == {k \in 1..Len(core.sources) : Exists(fs, core.sources[k])}

\* C14: a Move whose copy succeeded and whose deletion of an original failed
\* ends in an error: a move that is reported as a success has left none of
\* its originals in place.
C14_DeleteFailureReported ==
  (core.movePc = "done" /\ core.moveResult = "Success") => MoveLeftBehind = {}

\* The paste worker, for comparison: a step in which the deletion of the
\* original of a copied source fails collects "Failed to delete after move".
PasteDeleteFailureReported ==
  [][(w.pc = "ret" /\ w.stack = <<>> /\ w.isCut /\ w.ok /\ faults' # faults)
       => /\ w'.errors = Append(w.errors, "Failed to delete after move")
          /\ fs' = fs]_vars

\* The paste worker collected the failed deletion of an original.
PasteDeleteFailed ==
  \E k \in 1..Len(w.errors) : w.errors[k] = "Failed to delete after move"

\* The move ended after the deletion of an original failed.
MoveDeleteFailed ==
  /\ core.movePc = "done"
  /\ core.moveK > Len(core.sources)
  /\ MoveLeftBehind # {}


(***************************************************************************)
(* Repeated KeepBoth decisions against the same destination                *)
(***************************************************************************)
\* KeepBoth decisions taken for one destination in one behaviour.
MaxCopies == 3

\* The directory /k the decisions are taken in: the files n, a.b, a.b.c and
\* .h, and the directories D and D.x.
KeepBothFs ==
  LET k == <<"k">>
  IN  (<<>> :> DirEntry) @@ (<<k>> :> DirEntry)
      @@ (<<k, <<"n">>>> :> FileEntry(<<"n1">>))
      @@ (<<k, <<"a", ".", "b">>>> :> FileEntry(<<"b1">>))
      @@ (<<k, <<"a", ".", "b", ".", "c">>>> :> FileEntry(<<"c1">>))
      @@ (<<k, <<".", "h">>>> :> FileEntry(<<"h1">>))
      @@ (<<k, <<"D">>>> :> DirEntry)
      @@ (<<k, <<"D", ".", "x">>>> :> DirEntry)

\* The occupied destinations the incoming entries collide with.
KeepBothBases == ChildrenOf(KeepBothFs, <<<<"k">>>>)

InitKeepBoth ==
  /\ fs = KeepBothFs
  /\ clipboard = [urls |-> <<>>, cut |-> FALSE]
  /\ pasteInProgress = FALSE
  /\ eventQueue = <<>>
  /\ ui = IdleUi
  /\ w = IdleWorker
  /\ faults = 0
  /\ core = IdleCore
  /\ self = "alive"
  /\ returned = [d \in KeepBothBases |-> <<>>]

\* A KeepBoth decision for the occupied destination d: the path
\* makeUniqueKeepBothPath returns is taken, and the incoming entry (of the
\* kind of the occupant) is created there before the next call.
KeepBothCall(d) ==
  /\ Len(returned[d]) < MaxCopies
  /\ \E destPath \in {makeUniqueKeepBothPath(fs, d)} :
       /\ fs' = WithEntry(fs, destPath, KeepBothFs[d])
       /\ returned' = [returned EXCEPT ![d] = Append(@, destPath)]
  /\ UNCHANGED <<clipboard, pasteInProgress, eventQueue, ui, w, faults, core, self>>

NextKeepBoth == \E d \in KeepBothBases : KeepBothCall(d)

KeepBothSpec == InitKeepBoth /\ [][NextKeepBoth]_vars

\* The names the k-th KeepBoth sibling of d may have: the tag " (copy)" or
\* " (copy k)" after the full name of a directory or of a file without an
\* extension, before the extension (at one of the dots of the name) otherwise.
TaggedNames(d, k) ==
  LET name == FileNameOf(d)
      dots == {i \in 2..Len(name) : name[i] = "."}
      Tagged(i) == SubSeq(name, 1, i - 1) \o CopyTag(k) \o SubSeq(name, i, Len(name))
  IN  IF KeepBothFs[d].kind = "dir" \/ dots = {}
      THEN {FilePath(ParentOf(d), name \o CopyTag(k))}
      ELSE {FilePath(ParentOf(d), Tagged(i)) : i \in dots}

\* What d's calls have returned so far is as required: the k-th path is a
\* k-th tagged name and differs from the earlier ones; and the path the next
\* call returns does not exist.
KeepBothAsRequired(d) ==
  /\ ~Exists(fs, makeUniqueKeepBothPath(fs, d))
  /\ \A k \in 1..Len(returned[d]) :
       /\ returned[d][k] \in TaggedNames(d, k)
       /\ \A j \in 1..(k - 1) : returned[d][j] # returned[d][k]

\* C11: makeUniqueKeepBothPath never returns a path that exists, and repeated
\* calls against the same base, each returned path being created before the
\* next call, return distinct names in the order "name (copy)",
\* "name (copy 2)", ..., the tag before the extension of a file and after the
\* full name of a directory.
C11_KeepBothUniqueness == \A d \in KeepBothBases : KeepBothAsRequired(d)

\* The same for the destinations whose name holds at most one dot, none in
\* front: files with one extension or none, and directories.
KeepBothPlainNames ==
  \A d \in KeepBothBases :
    (KeepBothFs[d].kind = "dir"
       \/ (Cardinality({i \in 1..Len(FileNameOf(d)) : FileNameOf(d)[i] = "."}) <= 1
             /\ Head(FileNameOf(d)) # "."))
      => KeepBothAsRequired(d)


(***************************************************************************)
(* Pasting whole trees: copies and moves into a free destination           *)
(***************************************************************************)
\* The tree the runs start from:
\*   /m/T/x (2 blocks)   /m/T/S/y (1 block)   /m/T/.h (1 block, hidden)
\*   /m/g (1 block)      /n (empty)           /q/g (1 block)
TreeFs ==
  LET m == <<"m">>  n == <<"n">>  q == <<"q">>  T == <<"T">>  S == <<"S">>
      x == <<"x">>  y == <<"y">>  g == <<"g">>  h == <<".", "h">>
  IN  (<<>> :> DirEntry)
      @@ (<<m>> :> DirEntry) @@ (<<m, T>> :> DirEntry)
      @@ (<<m, T, x>> :> FileEntry(<<"x1", "x2">>))
      @@ (<<m, T, S>> :> DirEntry)
      @@ (<<m, T, S, y>> :> FileEntry(<<"y1">>))
      @@ (<<m, T, h>> :> FileEntry(<<"h1">>))
      @@ (<<m, g>> :> FileEntry(<<"g1">>))
      @@ (<<n>> :> DirEntry)
      @@ (<<q>> :> DirEntry)
      @@ (<<q, g>> :> FileEntry(<<"g0">>))

\* The clipboard holds the directory /m/T or the file /m/g.
TreeClipboardUrls ==
  { << <<<<"m">>, <<"T">>>> >>, << <<<<"m">>, <<"g">>>> >> }

\* The directories the user pastes into.
TreeDests == { <<<<"n">>>>, <<<<"q">>>> }

InitTree ==
  /\ fs = TreeFs
  /\ \E urls \in TreeClipboardUrls, cut \in BOOLEAN :
       clipboard = [urls |-> urls, cut |-> cut]
  /\ pasteInProgress = FALSE
  /\ eventQueue = <<>>
  /\ ui = IdleUi
  /\ w = IdleWorker
  /\ faults = 0
  /\ core = IdleCore
  /\ self = "alive"
  /\ returned = <<>>

NextTree ==
  \/ \E destDir \in TreeDests : onMenuPaste(destDir)
  \/ MainStep
  \/ WorkerStep

TreeSpec == InitTree /\ [][NextTree]_vars

\* The destination of the k-th top-level source of the run.
TopDest(k) == FilePath(w.destDir, FileNameOf(w.sourcePaths[k]))

\* A path with a hidden component beneath p.
HiddenBeneath(q, p) == \E k \in (Len(p) + 1)..Len(q) : Head(q[k]) = "."

\* The entries at and beneath p that are not hidden, by their relative paths.
VisibleSubtree(f, p) ==
  [rel \in {SubSeq(q, Len(p) + 1, Len(q)) :
              q \in {r \in DOMAIN f : (r = p \/ IsUnder(r, p)) /\ ~HiddenBeneath(r, p)}}
     |-> f[p \o rel]]

\* The fallback copy of a moved source returns to the source loop: the run is
\* the first one, a Move, and the destination of the source was free when the
\* run began, so that the rename was tried and had failed.
FallbackReturns ==
  /\ w.pc = "ret"
  /\ w.stack = <<>>
  /\ w.isCut
  /\ ui.started = 1
  /\ TopDest(w.i) \notin DOMAIN TreeFs
  /\ w'.pc # "ret"

\* The in-place rename of a moved source succeeds.
RenameSucceeds ==
  /\ w.pc = "loop"
  /\ w.isCut
  /\ fs' # fs

\* What a rename does: the size the scan found for the source is credited in
\* one step with at most one notification, and the loop goes on.
RenameCredits ==
  /\ w'.doneBytes = w.doneBytes + w.perSrcBytes[w.i]
  /\ Len(eventQueue') <= Len(eventQueue) + 1
  /\ w'.i = w.i + 1
  /\ w'.errors = w.errors
  /\ ~Exists(fs', w.sourcePaths[w.i])
  /\ Subtree(fs', TopDest(w.i)) = Subtree(fs, w.sourcePaths[w.i])

\* C13: a Move whose rename fails falls back to the recursive copy and the
\* deletion of the original; on success the source no longer exists, the
\* destination holds identical content and no error is recorded.  When the
\* rename succeeds the size found for the source is credited in one step.
C13_MoveFallsBackToCopy ==
  [][/\ (FallbackReturns /\ w'.ok) =>
          /\ ~Exists(fs', w.sourcePaths[w.i])
          /\ Subtree(fs', TopDest(w.i)) = Subtree(fs, w.sourcePaths[w.i])
          /\ w'.errors = w.errors
     /\ RenameSucceeds => RenameCredits]_vars

\* The same, the content compared without the hidden entries of the source.
MoveFallbackVisibleContent ==
  [][/\ (FallbackReturns /\ w'.ok) =>
          /\ ~Exists(fs', w.sourcePaths[w.i])
          /\ VisibleSubtree(fs', TopDest(w.i)) = VisibleSubtree(fs, w.sourcePaths[w.i])
          /\ w'.errors = w.errors
     /\ RenameSucceeds => RenameCredits]_vars

\* The directory /m/T was moved into /n by the fallback.
MovedByFallback ==
  /\ w.isCut
  /\ w.pc = "loop"
  /\ w.i = 2
  /\ w.ok
  /\ w.doneBytes > 0
  /\ <<<<"n">>, <<"T">>, <<"S">>, <<"y">>>> \in DOMAIN fs
  /\ ~Exists(fs, <<<<"m">>, <<"T">>>>)

\* The first run, a Copy, ends: no failure was injected and none of its
\* sources collided with an entry of the destination.
CleanCopyEnds ==
  /\ w.pc = "finish"
  /\ w'.pc = "done"
  /\ ~w.isCut
  /\ ui.started = 1
  /\ faults = 0
  /\ \A k \in 1..Len(w.sourcePaths) : TopDest(k) \notin DOMAIN TreeFs

\* The outcome of the run: success with zero errors.
EndsInSuccess ==
  /\ w.errors = <<>>
  /\ ~w.userCancelled
  /\ eventQueue'[Len(eventQueue')].errorText = <<>>

\* C15: a copy of a tree of regular files and directories without collisions
\* yields a totalBytes equal to the sum of the sizes of all files of the tree,
\* a final doneBytes equal to totalBytes, every source file at the
\* corresponding destination path with the same size, and success with zero
\* errors.
C15_CleanTreeCopy ==
  [][CleanCopyEnds =>
       /\ w.totalBytes = SubtreeBytes(fs, w.sourcePaths[1])
       /\ w.doneBytes = w.totalBytes
       /\ \A q \in DOMAIN fs :
            (fs[q].kind = "file" /\ (q = w.sourcePaths[1] \/ IsUnder(q, w.sourcePaths[1]))) =>
              LET to == TopDest(1) \o SubSeq(q, Len(w.sourcePaths[1]) + 1, Len(q))
              IN  to \in DOMAIN fs /\ fs[to].kind = "file"
                    /\ Len(fs[to].data) = Len(fs[q].data)
       /\ EndsInSuccess]_vars

\* The same for the files of the tree that are not hidden.
CleanTreeCopyVisibleFiles ==
  [][CleanCopyEnds =>
       /\ w.totalBytes = SumSizes(fs, {q \in DOMAIN fs :
              /\ fs[q].kind = "file"
              /\ q = w.sourcePaths[1] \/ IsUnder(q, w.sourcePaths[1])
              /\ ~HiddenBeneath(q, w.sourcePaths[1])})
       /\ w.doneBytes = w.totalBytes
       /\ \A q \in DOMAIN fs :
            (/\ fs[q].kind = "file"
             /\ q = w.sourcePaths[1] \/ IsUnder(q, w.sourcePaths[1])
             /\ ~HiddenBeneath(q, w.sourcePaths[1])) =>
              LET to == TopDest(1) \o SubSeq(q, Len(w.sourcePaths[1]) + 1, Len(q))
              IN  to \in DOMAIN fs /\ fs[to].data = fs[q].data
       /\ EndsInSuccess]_vars

\* The tree /m/T was copied into /n and the run ended without an error.
CopiedTree ==
  /\ ui.completions = 1
  /\ ui.errorText = <<>>
  /\ ~ui.cleared
  /\ <<<<"n">>, <<"T">>, <<"S">>, <<"y">>>> \in DOMAIN fs
  /\ <<<<"m">>, <<"T">>, <<"S">>, <<"y">>>> \in DOMAIN fs


(***************************************************************************)
(* Paste runs with sources that are missing                                *)
(***************************************************************************)
\* URL lists with a source that is missing when the paste is requested
\* (/m/z), and with a source that a move of an earlier source of the list
\* takes away (/m/T/x after /m/T, /m/g after /m/g).
MissingClipboardUrls ==
  LET m == <<"m">>
  IN  { << <<m, <<"z">>>>, <<m, <<"g">>>> >>,
        << <<m, <<"T">>>>, <<m, <<"T">>, <<"x">>>> >>,
        << <<m, <<"g">>>>, <<m, <<"g">>>> >> }

InitMissing ==
  /\ fs = TreeFs
  /\ \E urls \in MissingClipboardUrls, cut \in BOOLEAN :
       clipboard = [urls |-> urls, cut |-> cut]
  /\ pasteInProgress = FALSE
  /\ eventQueue = <<>>
  /\ ui = IdleUi
  /\ w = IdleWorker
  /\ faults = 0
  /\ core = IdleCore
  /\ self = "alive"
  /\ returned = <<>>

MissingSpec == InitMissing /\ [][NextTree]_vars

\* The source loop is at a source that does not exist.
MissingReached ==
  /\ w.pc = "loop"
  /\ w.i <= Len(w.sourcePaths)
  /\ ~Exists(fs, w.sourcePaths[w.i])

\* The worker takes its step at a source that does not exist.
MissingHandled == MissingReached /\ w' # w

\* The requested sources of the run of which nothing is at the destination.
NotTransferred ==
  {k \in 1..Len(clipboard.urls) :
     ~Exists(fs, FilePath(w.destDir, FileNameOf(clipboard.urls[k])))}

\* C16: no failure is silent.  A source that is missing when the source loop
\* reaches it adds a message to the collected errors and the loop goes on
\* with the next source; and when the worker hands over its outcome, the
\* outcome holds a message if a requested source has nothing at the
\* destination.
C16_NoSilentFailure ==
  [][/\ MissingHandled =>
          /\ Len(w'.errors) = Len(w.errors) + 1
          /\ w'.pc = "loop"
          /\ w'.i = w.i + 1
     /\ (w.pc = "finish" /\ w'.pc = "done" /\ NotTransferred # {}) =>
          eventQueue'[Len(eventQueue')].errorText # <<>>]_vars

\* What the source loop does at a missing source: it goes on with the next
\* source and collects nothing.
MissingSourceSkipped ==
  [][MissingHandled => w' = [w EXCEPT !.i = @ + 1] /\ fs' = fs]_vars

\* A run reached a missing source and ended without any message.
MissingUnreported ==
  /\ ui.completions = 1
  /\ ui.errorText = <<>>
  /\ <<<<"n">>, <<"T">>>> \in DOMAIN fs
  /\ <<<<"n">>, <<"x">>>> \notin DOMAIN fs
  /\ ui.cleared


(***************************************************************************)
(* The lifetime of the Kitaplik object                                     *)
(***************************************************************************)
\* Kitaplik::~Kitaplik (= default) reaches the member fileOpThread: the
\* destructor of std::jthread requests a stop and joins.  The controlling
\* context is inside the destructor from here on and handles no queued
\* invocation; the QObject part, and with it every QPointer, is still intact.
destroyKitaplik ==
  /\ self = "alive"
  /\ self' = "joining"
  /\ UNCHANGED <<fs, clipboard, pasteInProgress, eventQueue, ui, w, faults, core, returned>>

\* The join returned (the thread function has returned, or no thread was
\* started): ~QObject clears the QPointers and drops the posted invocations.
joinedKitaplik ==
  /\ self = "joining"
  /\ w.pc \in {"idle", "done"}
  /\ self' = "gone"
  /\ eventQueue' = <<>>
  /\ UNCHANGED <<fs, clipboard, pasteInProgress, ui, w, faults, core, returned>>

NextLife ==
  \/ \E destDir \in TreeDests : onMenuPaste(destDir)
  \/ MainStep
  \/ WorkerStep
  \/ destroyKitaplik
  \/ joinedKitaplik

LifeSpec == InitTree /\ [][NextLife]_vars

\* The worker thread runs while it can, the event loop of the controlling
\* context handles what is queued while the object is alive, and a join
\* returns when the thread has ended.
FairLifeSpec ==
  /\ InitTree /\ [][NextLife]_vars
  /\ WF_vars(WorkerStep) /\ WF_vars(MainStep) /\ WF_vars(joinedKitaplik)

\* The worker thread is running.
WorkerRunning == w.pc \notin {"idle", "done"}

\* C18: the conflict handshake never deadlocks: every conflict request of the
\* worker eventually receives a decision, and a running worker eventually
\* ends, also when the Kitaplik object is destroyed during the run.
C18_HandshakeNeverDeadlocks ==
  /\ (w.pc = "await" /\ ~w.answered) ~> (w.pc = "await" /\ w.answered)
  /\ WorkerRunning ~> ~WorkerRunning

\* The same while the object stays alive.
HandshakeWhileAlive ==
  /\ (w.pc = "await" /\ ~w.answered) ~> (self # "alive" \/ w.answered)
  /\ WorkerRunning ~> (self # "alive" \/ ~WorkerRunning)

\* The destructor waits for a worker that waits for the conflict dialog.
JoinWaitsForDialog ==
  /\ self = "joining"
  /\ w.pc = "await"
  /\ ~w.answered

\* The stop the destructor of fileOpThread requested: the one cancellation
\* request a running paste can receive from outside.
StopRequested == self = "joining"

\* The worker is at the top of an iteration over the sources or over the
\* entries of a directory, or at the start of the copy of one entry.
PollPoint ==
  \/ w.pc = "loop" /\ w.i <= Len(w.sourcePaths)
  \/ w.pc = "iter" /\ w.stack[Len(w.stack)].entries # <<>>
  \/ w.pc = "call"

\* C17: cancellation is polled at the top of every iteration and before each
\* entry's copy: the step the worker takes there once the stop is requested
\* ends the run as cancelled, changes nothing in the filesystem and leaves
\* doneBytes where it was.
C17_CancellationStopsTheRun ==
  [][(StopRequested /\ PollPoint /\ w' # w) =>
       /\ fs' = fs
       /\ w'.doneBytes = w.doneBytes
       /\ w'.userCancelled
       /\ w'.pc \in {"ret", "finish"}]_vars

\* The copy loop of FileOperations::copyFilesAsync, for comparison: the
\* iteration that finds the flag set ends the task as cancelled and changes
\* nothing.
CoreCancellationStops ==
  [][(core.cancelled /\ core.pc = "copy" /\ core.k <= Len(core.sources)
        /\ (core'.pc # core.pc \/ core'.k # core.k)) =>
       /\ fs' = fs
       /\ core'.doneSize = core.doneSize
       /\ core'.result = "Operation cancelled"]_vars

\* The controlling context no longer exists: the destructor of the Kitaplik
\* object has begun, and no handler of the object will run again.
ContextGone == self # "alive"

\* The worker enters an entry whose destination is occupied: it needs a
\* conflict decision.
NeedsDecision ==
  /\ w.pc = "call"
  /\ Exists(fs, w.src)
  /\ Exists(fs, w.dst)
  /\ w' # w

\* C19: a worker that needs a conflict decision when the controlling context
\* no longer exists gets Cancel as the decision, at once and without a change
\* to the filesystem.
C19_GoneContextResolvesToCancel ==
  [][(ContextGone /\ NeedsDecision) =>
       /\ w'.answered
       /\ w'.choice = "Cancel"
       /\ fs' = fs]_vars

\* What happens instead: the request is posted to the object and is never
\* answered, so no decision of any kind is acted upon.
GoneContextNeverAnswers ==
  [][/\ (ContextGone /\ NeedsDecision) =>
          /\ ~w'.answered
          /\ eventQueue' = Append(eventQueue, ConflictEvent(w.src, w.dst, w'.kind = "dir"))
          /\ fs' = fs
     /\ (ContextGone /\ w.pc = "await" /\ ~w.answered) => w' = w]_vars


(***************************************************************************)
(* Paste runs next to the other mutations of the controlling context       *)
(***************************************************************************)
\* The tree of the trash handlers with the directory /h/d, which holds an
\* empty directory %41.
BusyFs ==
  TrashFs @@ (<<<<"h">>, <<"d">>>> :> DirEntry)
          @@ (<<<<"h">>, <<"d">>, <<"%", "4", "1">>>> :> DirEntry)

\* The clipboard holds the directory /h/%41, to be pasted into /h/d.
InitBusy ==
  /\ fs = BusyFs
  /\ \E cut \in BOOLEAN :
       clipboard = [urls |-> << <<<<"h">>, <<"%", "4", "1">>>> >>, cut |-> cut]
  /\ pasteInProgress = FALSE
  /\ eventQueue = <<>>
  /\ ui = IdleUi
  /\ w = IdleWorker
  /\ faults = 0
  /\ core = IdleCore
  /\ self = "alive"
  /\ returned = <<>>

\* The user deletes, restores or empties the trash while the run is in flight
\* (every dialog confirmed, no injected failure).
TrashStep ==
  \/ \E targetPath \in {q \in Deletable : q \in DOMAIN fs /\ ~IsSymLink(fs, q)} \cup TrashItems(fs),
        ms \in ClockValues :
       pasteInProgress /\ onMenuDelete(targetPath, TRUE, "none", ms)
  \/ \E trashPath \in TrashItems(fs) :
       pasteInProgress /\ onMenuRestoreFromTrash(trashPath, "none")
  \/ pasteInProgress /\ onMenuEmptyTrash(TRUE, "none")

NextBusy ==
  \/ onMenuPaste(<<<<"h">>, <<"d">>>>)
  \/ MainStep
  \/ WorkerStep
  \/ TrashStep

BusySpec == InitBusy /\ [][NextBusy]_vars

\* C20: one run at a time is the concurrency control of every mutation: while
\* the worker of a paste is in flight, no deletion, restore or emptying of the
\* trash changes the filesystem.
C20_OneMutationAtATime ==
  [][WorkerRunning => ~(TrashStep /\ fs' # fs)]_vars

\* The busy flag does keep a second paste from starting.
OnePasteAtATime ==
  [][WorkerRunning => w'.sourcePaths = w.sourcePaths \/ w'.pc = "done"]_vars

\* A file of the directory being copied was moved to the trash under the
\* worker.
TrashedUnderWorker ==
  /\ WorkerRunning
  /\ ~w.isCut
  /\ <<<<"h">>, <<"%", "4", "1">>, <<"a">>>> \notin DOMAIN fs
  /\ TrashItems(fs) # {}


(***************************************************************************)
(* The helper functions of kitaplik.cpp called on their own                *)
(***************************************************************************)
\* The tree the helpers are called on:
\*   /d/f (2 blocks)   /d/.h (1 block, hidden)   /d/s/g (1 block)
\*   /d/s/o (a socket) /d/lf -> /d/f   /d/ld -> /d/s   /d/lb -> /x (broken)
\*   /e/f (1 block)    /e/ld -> /d/s
\*   /o (a socket)     /r (a directory that is not writable)   /r/f (1 block)
HelperFs ==
  LET d == <<"d">>  e == <<"e">>  r == <<"r">>  s == <<"s">>  f == <<"f">>
  IN  (<<>> :> DirEntry)
      @@ (<<d>> :> DirEntry)
      @@ (<<d, f>> :> FileEntry(<<"f1", "f2">>))
      @@ (<<d, <<".", "h">>>> :> FileEntry(<<"h1">>))
      @@ (<<d, s>> :> DirEntry)
      @@ (<<d, s, <<"g">>>> :> FileEntry(<<"g1">>))
      @@ (<<d, s, <<"o">>>> :> OtherEntry)
      @@ (<<d, <<"l", "f">>>> :> LinkEntry(<<d, f>>))
      @@ (<<d, <<"l", "d">>>> :> LinkEntry(<<d, s>>))
      @@ (<<d, <<"l", "b">>>> :> LinkEntry(<< <<"x">> >>))
      @@ (<<e>> :> DirEntry)
      @@ (<<e, f>> :> FileEntry(<<"e1">>))
      @@ (<<e, <<"l", "d">>>> :> LinkEntry(<<d, s>>))
      @@ (<< <<"o">> >> :> OtherEntry)
      @@ (<<r>> :> [DirEntry EXCEPT !.w = FALSE])
      @@ (<<r, f>> :> FileEntry(<<"r1">>))

\* The paths the helpers are called with: every entry of the tree, and missing
\* names one, two and three components beneath the directories.
HelperPaths ==
  LET z == <<"z">>
  IN  DOMAIN HelperFs
      \cup {Append(q, z) : q \in DOMAIN HelperFs}
      \cup {q \o <<z, z>> : q \in DOMAIN HelperFs}
      \cup {q \o <<z, z, z>> : q \in DOMAIN HelperFs}

NoCall == [op |-> "none", path |-> <<>>, value |-> <<>>]

InitHelper ==
  /\ fs = HelperFs
  /\ clipboard = [urls |-> <<>>, cut |-> FALSE]
  /\ pasteInProgress = FALSE
  /\ eventQueue = <<>>
  /\ ui = IdleUi
  /\ w = IdleWorker
  /\ faults = 0
  /\ core = IdleCore
  /\ self = "alive"
  /\ returned = NoCall

\* A call of totalBytesForPath.
SizeCall(path) ==
  /\ returned' = [op |-> "totalBytesForPath", path |-> path,
                  value |-> totalBytesForPath(fs, path)]
  /\ UNCHANGED <<fs, clipboard, pasteInProgress, eventQueue, ui, w, faults, core, self>>

\* A call of ensureWritableTarget.
WritableCall(path) ==
  /\ returned' = [op |-> "ensureWritableTarget", path |-> path,
                  value |-> ensureWritableTarget(fs, path)]
  /\ UNCHANGED <<fs, clipboard, pasteInProgress, eventQueue, ui, w, faults, core, self>>

NextHelper ==
  \/ \E path \in HelperPaths : SizeCall(path)
  \/ \E path \in HelperPaths : WritableCall(path)

HelperSpec == InitHelper /\ [][NextHelper]_vars

\* The size the entry at p has by its own kind (the link itself, not what it
\* points to): the content of a file, 0 for a link and for a missing path, the
\* sum over all children for a directory, no value for anything else.
SizeByKind(f, p) ==
  IF p \notin DOMAIN f THEN [ok |-> TRUE, n |-> 0]
  ELSE IF \E q \in DOMAIN f : (q = p \/ IsUnder(q, p)) /\ f[q].kind = "other"
  THEN [ok |-> FALSE, n |-> 0]
  ELSE [ok |-> TRUE, n |-> SubtreeBytes(f, p)]

\* C21: totalBytesForPath returns the size of a regular file, 0 for every
\* symbolic link whatever it points to, the recursive sum over the children
\* of a directory, an error for any other entry type at any depth, and 0
\* without an error for a missing path.
C21_TotalBytesByKind ==
  returned.op = "totalBytesForPath" =>
    returned.value = SizeByKind(fs, returned.path)

\* Beneath p (p included) there is no link to a regular file, no hidden entry
\* and, below p itself, no entry that is neither file, directory nor link.
PlainTree(f, p) ==
  \A q \in DOMAIN f :
    (q = p \/ IsUnder(q, p)) =>
      /\ ~(f[q].kind = "link" /\ IsFile(f, q))
      /\ q # p => ~IsHidden(q) /\ f[q].kind # "other"

\* The same for the trees without such entries.
TotalBytesByKindOfPlainTrees ==
  (returned.op = "totalBytesForPath" /\ PlainTree(fs, returned.path)) =>
    returned.value = SizeByKind(fs, returned.path)

\* totalBytesForPath was called for the link /d/lf and returned the size of
\* the file the link points to.
SizedLinkToFile ==
  /\ returned.op = "totalBytesForPath"
  /\ returned.path = <<<<"d">>, <<"l", "f">>>>
  /\ returned.value = [ok |-> TRUE, n |-> 2]

\* C22: ensureWritableTarget walks upward to the nearest existing ancestor at
\* any depth and succeeds exactly when that ancestor is writable; it fails
\* with "No writable parent" only when no ancestor exists.
C22_WritableByNearestAncestor ==
  returned.op = "ensureWritableTarget" =>
    returned.value = (IF IsWritable(fs, NearestAncestor(fs, returned.path))
                      THEN "" ELSE "Permission denied")

\* The same for the paths that exist or whose parent directory exists.
WritableByParent ==
  (/\ returned.op = "ensureWritableTarget"
   /\ Exists(fs, returned.path) \/ Exists(fs, ParentOf(returned.path))) =>
    returned.value = (IF IsWritable(fs, NearestAncestor(fs, returned.path))
                      THEN "" ELSE "Permission denied")

\* What a path with two or more missing trailing components gets.
WritableStopsAtMissingParent ==
  (/\ returned.op = "ensureWritableTarget"
   /\ ~Exists(fs, returned.path) /\ ~Exists(fs, ParentOf(returned.path))) =>
    returned.value = "No writable parent for path"

\* ensureWritableTarget was called for /d/z/z, beneath the writable directory
\* /d, and failed.
WritableRefusedDeepPath ==
  /\ returned.op = "ensureWritableTarget"
  /\ returned.path = <<<<"d">>, <<"z">>, <<"z">>>>
  /\ returned.value # ""


(***************************************************************************)
(* The trash handlers over directories that are not writable               *)
(***************************************************************************)
\* The directories and files whose write permission may be taken away
\* meanwhile.
GuardDirs == {HomePath, trashFilesPath, trashInfoPath} \cup Deletable

\* chmod a-w on one of them (the user in a shell, another program).
Protect(dir) ==
  /\ dir \in DOMAIN fs
  /\ fs[dir].w
  /\ fs' = [fs EXCEPT ![dir].w = FALSE]
  /\ UNCHANGED <<clipboard, pasteInProgress, eventQueue, ui, w, faults, core, self, returned>>

\* Sidecars the trash may hold before the user stops deleting.
MaxTrashed == 1

\* Move to trash, restore and empty trash with the user confirming and no
\* injected fault; each of the three writes into both trash roots.
NextGuard ==
  \/ \E targetPath \in {q \in Deletable : q \in DOMAIN fs}, ms \in ClockValues :
       /\ Cardinality(ChildrenOf(fs, trashInfoPath)) < MaxTrashed
       /\ Cardinality(DOMAIN fs) < MaxEntries
       /\ onMenuDelete(targetPath, TRUE, "none", ms)
  \/ \E trashPath \in TrashItems(fs) :
       /\ Cardinality(DOMAIN fs) < MaxEntries
       /\ onMenuRestoreFromTrash(trashPath, "none")
  \/ onMenuEmptyTrash(TRUE, "none")
  \/ \E dir \in GuardDirs : Protect(dir)

GuardSpec == InitTrash /\ [][NextGuard]_vars

\* What the tree holds, permissions aside.
Contents(f) == [q \in DOMAIN f |-> [kind |-> f[q].kind, data |-> f[q].data, target |-> f[q].target]]

\* ensureWritableTarget refuses one of the trash roots.
TrashGuardFails ==
  ensureWritableTarget(fs, trashFilesPath) # "" \/ ensureWritableTarget(fs, trashInfoPath) # ""

\* C23: every mutating operation asks the PathSafety guards before it touches
\* the filesystem: while ensureWritableTarget refuses a trash root that move to
\* trash, restore and empty trash write into, no step changes what the
\* filesystem holds.
C23_GuardsBeforeMutation ==
  [][TrashGuardFails => Contents(fs') = Contents(fs)]_vars

\* The same for the one guard onMenuDelete does ask: a file ensureWritableTarget
\* refuses stays as it is.
DeleteGuardShortCircuits ==
  [][\A q \in Deletable :
       q \in DOMAIN fs /\ ensureWritableTarget(fs, q) # "" => q \in DOMAIN fs' /\ fs'[q] = fs[q]]_vars

\* The user asked to delete a file that is not writable and was refused.
DeleteRefused ==
  \E q \in Deletable : q \in DOMAIN fs /\ ~fs[q].w /\ ui.notice = "Permission denied"

\* A trash root was refused and the trash changed all the same.
GuardFailedAndChanged ==
  /\ ~IsWritable(fs, trashInfoPath)
  /\ trashFilesPath \notin DOMAIN fs
  /\ ui.notice = DeleteDirectoryError(trashInfoPath)


(***************************************************************************)
(* Restoring from the trash, each call recorded                            *)
(***************************************************************************)
\* What the user may ask to restore: the items of the trash view and paths
\* that are no trash items (files of the home, a vacant path, the trash files
\* root, the sidecars).
RestoreArgs(f) ==
  TrashItems(f) \cup Deletable \cup ChildrenOf(f, trashInfoPath) \cup {trashFilesPath}

\* Kitaplik::onMenuRestoreFromTrash with the call kept in returned: the path
\* asked for, the tree before and after, and what restoreFromTrash answered.
RestoreCall(trashPath, fault) ==
  LET restored == restoreFromTrash(fs, trashPath, fault)
  IN  /\ ChargeFault(fault)
      /\ fs' = restored.fs
      /\ ui' = [ui EXCEPT !.notice = IF restored.ok THEN "none" ELSE restored.error]
      /\ returned' = [op |-> "restoreFromTrash", path |-> trashPath, before |-> fs,
                      after |-> restored.fs, ok |-> restored.ok, error |-> restored.error]
      /\ UNCHANGED <<clipboard, pasteInProgress, eventQueue, w, core, self>>

\* The trees a restore may find. The trash holds /h/a, or /h/a and /h/%41/a,
\* as moveToTrash left them; meanwhile something else may have put a new entry
\* at /h/a, removed the directory /h/%41, taken the write permission of the
\* home or of the trash files root away, and truncated or removed a sidecar.
RestoreTrees ==
  LET a == <<<<"h">>, <<"a">>>>
      ka == <<<<"h">>, <<"%", "4", "1">>, <<"a">>>>
      one == moveToTrash(TrashFs, a, "none", 1).fs
      two == moveToTrash(one, ka, "none", 1).fs
      Occupied(t) == {t} \cup {WithEntry(t, a, entry) : entry \in NewEntries}
      Orphaned(t) == {t} \cup (IF ka \in DOMAIN t THEN {} ELSE {Without(t, ParentOf(ka))})
      Protected(t) == {t} \cup {[t EXCEPT ![dir].w = FALSE] : dir \in {HomePath, trashFilesPath}}
      Tampered(t) == {t} \cup {[t EXCEPT ![s].data = <<>>] : s \in ChildrenOf(t, trashInfoPath)}
                         \cup {Without(t, s) : s \in ChildrenOf(t, trashInfoPath)}
  IN  UNION {UNION {UNION {Tampered(t3) : t3 \in Protected(t2)} : t2 \in Orphaned(t1)}
               : t1 \in Occupied(one) \cup Occupied(two)}

InitRestore ==
  /\ fs \in RestoreTrees
  /\ clipboard = [urls |-> <<>>, cut |-> FALSE]
  /\ pasteInProgress = FALSE
  /\ eventQueue = <<>>
  /\ ui = IdleUi
  /\ w = IdleWorker
  /\ faults = 0
  /\ core = IdleCore
  /\ self = "alive"
  /\ returned = [op |-> "none", path |-> <<>>, before |-> fs, after |-> fs,
                 ok |-> TRUE, error |-> ""]

\* The handlers stop once the tree holds MaxEntries entries (a delete or a
\* restore that fails after its copy leaves one entry more each time).
NextRestore ==
  \/ \E targetPath \in {q \in Deletable : q \in DOMAIN fs /\ ~IsSymLink(fs, q)},
        ms \in ClockValues :
       /\ onMenuDelete(targetPath, TRUE, "none", ms)
       /\ Cardinality(DOMAIN fs') <= MaxEntries
  \/ \E trashPath \in RestoreArgs(fs), fault \in TrashFaultChoices :
       /\ RestoreCall(trashPath, fault)
       /\ Cardinality(DOMAIN fs') <= MaxEntries
  \/ \E confirmed \in BOOLEAN, fault \in TrashFaultChoices : onMenuEmptyTrash(confirmed, fault)

RestoreSpec == InitRestore /\ [][NextRestore]_vars

\* restoreFromTrash has been called; returned holds the last call.
Restoring == returned.op = "restoreFromTrash"

\* The path, links resolved, lies below the trash files root.
InsideTrashFiles(f, path) ==
  IsUnder(normalizePathForFs(f, path), normalizePathForFs(f, trashFilesPath))

\* C24: restoreFromTrash rejects every path that is not inside the trash files
\* root with an error and leaves the filesystem as it was.
C24_RestoreRejectsForeignPaths ==
  Restoring /\ ~InsideTrashFiles(returned.before, returned.path)
    => ~returned.ok /\ returned.error # "" /\ returned.after = returned.before

\* An existing file outside the trash was asked for and refused.
ForeignPathRefused ==
  /\ Restoring
  /\ returned.path \in Deletable
  /\ returned.path \in DOMAIN returned.before
  /\ returned.error = "Not a trash item"


\* C25: restoreFromTrash removes the sidecar only after the move back
\* succeeded: a call that returns an error leaves every sidecar of the trash
\* info root present and as it was.
C25_SidecarKeptOnFailure ==
  Restoring /\ ~returned.ok
    => \A s \in ChildrenOf(returned.before, trashInfoPath) :
         s \in DOMAIN returned.after /\ returned.after[s] = returned.before[s]

\* A restore failed after the item had been copied back, and the sidecar of the
\* item is still there.
SidecarKeptAfterCopy ==
  /\ Restoring
  /\ returned.error = "Failed to remove trashed item"
  /\ SidecarOf(returned.path) \in DOMAIN returned.after


\* The original location the sidecar of a trash item records.
OriginalOf(f, item) == RecordedPath(f, normalizePathForFs(f, item))

\* The last call was a restore of a trash item whose original location holds
\* an entry.
RestoringOccupied ==
  /\ Restoring
  /\ InsideTrashFiles(returned.before, returned.path)
  /\ IsFile(returned.before, SidecarOf(normalizePathForFs(returned.before, returned.path)))
  /\ OriginalOf(returned.before, returned.path) \in DOMAIN returned.before

\* The entry at the original location is after the call what it was before.
OccupantKept ==
  LET p == OriginalOf(returned.before, returned.path)
  IN  p \in DOMAIN returned.after /\ Subtree(returned.after, p) = Subtree(returned.before, p)

\* The item stands at the KeepBoth alternate of its original location.
PlacedAtAlternate ==
  LET p == OriginalOf(returned.before, returned.path)
      place == makeUniqueKeepBothPath(returned.before, p)
  IN  /\ place \in DOMAIN returned.after
      /\ Subtree(returned.after, place) = Subtree(returned.before, returned.path)

\* C26: if the original location is occupied at restore time, the item is
\* placed at a KeepBoth alternate path of it, and the occupying entry is never
\* overwritten, replaced or removed.
C26_OccupiedOriginalKept ==
  RestoringOccupied => OccupantKept /\ (returned.ok => PlacedAtAlternate)

\* The half that holds: whatever the restore does, the occupying entry stays.
OccupantNeverTouched == RestoringOccupied => OccupantKept

\* The same with the original location occupied by anything but a symbolic
\* link.
OccupiedByNoLink ==
  RestoringOccupied
    /\ ~IsSymLink(returned.before, OriginalOf(returned.before, returned.path))
    => OccupantKept /\ (returned.ok => PlacedAtAlternate)

\* A restore succeeded although a symbolic link occupied the original
\* location, and the item is not at the alternate of that location.
RestoredBesideLinkTarget ==
  RestoringOccupied /\ returned.ok /\ ~PlacedAtAlternate


(***************************************************************************)
(* The sidecar that could not be written                                   *)
(***************************************************************************)
\* The step is onMenuDelete of path, confirmed, and the sidecar of the item
\* cannot be written.
DeleteWithoutSidecar(path) ==
  /\ path \in DOMAIN fs
  /\ ~isInsideTrashFiles(fs, path)
  /\ \E ms \in ClockValues :
       /\ onMenuDelete(path, TRUE, "metadata", ms)
       /\ moveToTrash(fs, normalizePathForFs(fs, path), "metadata", ms).error # ""

\* C27: if writing the sidecar fails after the item was moved into the trash,
\* moveToTrash still reports success, and the failure is reported to the user
\* as a warning: the message is not dropped.
C27_MetadataFailureWarned ==
  [][\A path \in Deletable :
       DeleteWithoutSidecar(path) =>
         \E ms \in ClockValues :
           LET trashed == moveToTrash(fs, normalizePathForFs(fs, path), "metadata", ms)
           IN  trashed.ok /\ ui'.notice = trashed.error]_vars

\* The half that holds: the item has left its place and moveToTrash reports
\* success.
MetadataFailureIsSuccess ==
  [][\A path \in Deletable :
       DeleteWithoutSidecar(path) =>
         /\ path \notin DOMAIN fs'
         /\ \E ms \in ClockValues :
              moveToTrash(fs, normalizePathForFs(fs, path), "metadata", ms).ok]_vars

\* The trash holds an item without a sidecar and no warning was shown.
TrashedWithoutWarning ==
  /\ faults = 1
  /\ ui.notice = "none"
  /\ \E item \in TrashItems(fs) : SidecarOf(item) \notin DOMAIN fs


(***************************************************************************)
(* Emptying the trash                                                      *)
(***************************************************************************)
\* Both trash roots are directories and hold nothing.
RootsEmpty(f) ==
  \A root \in {trashFilesPath, trashInfoPath} :
    root \in DOMAIN f /\ f[root].kind = "dir" /\ ChildrenOf(f, root) = {}

\* The step is onMenuEmptyTrash, confirmed.
EmptyingTrash == \E fault \in TrashFaults : onMenuEmptyTrash(TRUE, fault)

\* C28: emptyTrash, when it returns success, leaves both trash roots existing
\* and empty; when deleting one root fails it aborts with an error that names
\* the root, does not bring back what it deleted, and does not report success.
C28_EmptyTrashAllOrError ==
  [][EmptyingTrash =>
       IF ui'.notice = "none" THEN RootsEmpty(fs')
       ELSE /\ \E root \in {trashFilesPath, trashInfoPath} :
                 ui'.notice = DeleteDirectoryError(root) /\ root \in DOMAIN fs'
            /\ ui'.notice = DeleteDirectoryError(trashInfoPath) => trashFilesPath \notin DOMAIN fs'
            /\ \A q \in DOMAIN fs' : q \in DOMAIN fs /\ fs'[q] = fs[q]]_vars

\* The trash was emptied: both roots are there, empty, after the trash had
\* held an item.
TrashEmptied ==
  /\ RootsEmpty(fs)
  /\ ui.notice = "none"
  /\ \E q \in Deletable : q \notin DOMAIN fs

\* The info root could not be deleted after the files root was gone.
EmptiedHalfway ==
  /\ ui.notice = DeleteDirectoryError(trashInfoPath)
  /\ trashFilesPath \notin DOMAIN fs
  /\ ChildrenOf(fs, trashInfoPath) # {}


(***************************************************************************)
(* Path normalisation on the text of a path                                *)
(***************************************************************************)
\* The longest path text normalised.
MaxLen == 5

\* The characters of the path texts: the separator, the dot, two letters.
PathChars == {"/", ".", "d", "l"}

PathTexts == UNION {[1..n -> PathChars] : n \in 0..MaxLen}

\* The working directory of the process, and its text.
CurrentPath == <<<<"d">>>>

\* The text of an absolute path; "/" for the root.
PathText(p) == IF p = <<>> THEN <<"/">> ELSE PathString(p)

\* The tree the texts are resolved in: the directory /d with the file /d/d and
\* the dangling link /d/l -> /dl, the link /l -> /d and the link /ll -> /l.
NormalizeFs ==
  LET d == <<"d">>  l == <<"l">>
  IN  (<<>> :> DirEntry)
      @@ (<<d>> :> DirEntry)
      @@ (<<d, d>> :> FileEntry(<<"d1">>))
      @@ (<<d, l>> :> LinkEntry(<<<<"d", "l">>>>))
      @@ (<<l>> :> LinkEntry(<<d>>))
      @@ (<<<<"l", "l">>>> :> LinkEntry(<<l>>))

\* The text cut at every separator: "/a//b/" gives "", "a", "", "b", "".
RECURSIVE SplitPath(_, _, _)
SplitPath(text, i, name) ==
  IF i > Len(text) THEN <<name>>
  ELSE IF text[i] = "/" THEN <<name>> \o SplitPath(text, i + 1, <<>>)
  ELSE SplitPath(text, i + 1, Append(name, text[i]))

\* The names joined by separators, none in front.
RECURSIVE JoinNames(_)
JoinNames(names) ==
  IF names = <<>> THEN <<>>
  ELSE IF Len(names) = 1 THEN names[1]
  ELSE names[1] \o <<"/">> \o JoinNames(Tail(names))

\* Empty components and "." dropped, ".." taking the name before it away and
\* dropped at the root: the loop of the catch block of normalizePath, and what
\* QDir::cleanPath does to an absolute path.
RECURSIVE Collapse(_, _, _)
Collapse(tokens, i, names) ==
  IF i > Len(tokens) THEN names
  ELSE IF tokens[i] = <<>> \/ tokens[i] = <<".">> THEN Collapse(tokens, i + 1, names)
  ELSE IF tokens[i] = <<".", ".">>
  THEN Collapse(tokens, i + 1, IF names = <<>> THEN names ELSE SubSeq(names, 1, Len(names) - 1))
  ELSE Collapse(tokens, i + 1, Append(names, tokens[i]))

\* QDir(path).absolutePath() before cleaning: the empty text is the working
\* directory, a relative text is taken below it.
absolutePath(text) ==
  IF text = <<>> THEN PathText(CurrentPath)
  ELSE IF text[1] = "/" THEN text
  ELSE PathText(CurrentPath) \o <<"/">> \o text

\* QDir::cleanPath of an absolute text, as the path it names.
cleanPath(text) == Collapse(SplitPath(text, 1, <<>>), 1, <<>>)

\* A variant that reads one link and stops: the target of a link at the path,
\* the path itself otherwise.
RECURSIVE readLinkOnce(_, _, _, _)
readLinkOnce(f, done, rest, hops) ==
  IF rest = <<>> THEN done
  ELSE LET q == Append(done, Head(rest))
       IN  IF q \notin DOMAIN f THEN NoPath
           ELSE IF f[q].kind = "link" /\ Tail(rest) = <<>> THEN f[q].target
           ELSE IF f[q].kind = "link" THEN readLinkOnce(f, <<>>, f[q].target \o Tail(rest), hops - 1)
           ELSE IF Tail(rest) # <<>> /\ f[q].kind # "dir" THEN NoPath
           ELSE readLinkOnce(f, q, Tail(rest), hops)

\* QFileInfo::canonicalFilePath, realpath(3): every component resolved from the
\* root on, links followed wherever they stand; NoPath when a component is
\* missing, not a directory, or the links do not end.
RECURSIVE canonicalFilePath(_, _, _, _)
canonicalFilePath(f, done, rest, hops) ==
  IF rest = <<>> THEN done
  ELSE LET q == Append(done, Head(rest))
       IN  IF q \notin DOMAIN f THEN NoPath
           ELSE IF f[q].kind = "link"
           THEN (IF hops = 0 THEN NoPath
                 ELSE canonicalFilePath(f, <<>>, f[q].target \o Tail(rest), hops - 1))
           ELSE IF Tail(rest) # <<>> /\ f[q].kind # "dir" THEN NoPath
           ELSE canonicalFilePath(f, q, Tail(rest), hops)

\* normalizePathForFs on the text of a path: the canonical path of a path that
\* exists, the cleaned absolute path otherwise.
normalizePathForFsText(f, text) ==
  LET clean == cleanPath(absolutePath(text))
      canonical == canonicalFilePath(f, <<>>, clean, Cardinality(DOMAIN f))
  IN  IF canonical # NoPath THEN PathText(canonical) ELSE PathText(clean)

\* std::filesystem::absolute of a text that is not empty; an absolute text is
\* returned as it is.
absolute(text) ==
  IF text[1] = "/" THEN text ELSE PathText(CurrentPath) \o <<"/">> \o text

\* path::lexically_normal of an absolute text: "." and "name/.." are removed,
\* ".." at the root is removed, repeated separators count once, and the result
\* ends in a separator when the text ended in a separator, "." or "..".
RECURSIVE NormalForm(_, _, _, _)
NormalForm(tokens, i, names, trailing) ==
  IF i > Len(tokens)
  THEN <<"/">> \o JoinNames(names) \o (IF trailing /\ names # <<>> THEN <<"/">> ELSE <<>>)
  ELSE IF tokens[i] = <<>>
  THEN NormalForm(tokens, i + 1, names, IF i = Len(tokens) THEN TRUE ELSE trailing)
  ELSE IF tokens[i] = <<".">> THEN NormalForm(tokens, i + 1, names, TRUE)
  ELSE IF tokens[i] = <<".", ".">>
  THEN NormalForm(tokens, i + 1,
                  IF names = <<>> THEN names ELSE SubSeq(names, 1, Len(names) - 1), TRUE)
  ELSE NormalForm(tokens, i + 1, Append(names, tokens[i]), FALSE)

lexically_normal(text) == NormalForm(SplitPath(text, 1, <<>>), 1, <<>>, FALSE)

\* PathValidator::normalizePath. absolute() throws for the empty text, and for
\* a relative text when the working directory cannot be read (cwdOk false);
\* the catch block then joins the collapsed components without a leading
\* separator.
normalizePath(text, cwdOk) ==
  IF text = <<>> \/ (~cwdOk /\ text[1] # "/")
  THEN JoinNames(Collapse(SplitPath(text, 1, <<>>), 1, <<>>))
  ELSE lexically_normal(absolute(text))

InitNormalize ==
  /\ fs = NormalizeFs
  /\ clipboard = [urls |-> <<>>, cut |-> FALSE]
  /\ pasteInProgress = FALSE
  /\ eventQueue = <<>>
  /\ ui = IdleUi
  /\ w = IdleWorker
  /\ faults = 0
  /\ core = IdleCore
  /\ self = "alive"
  /\ \E text \in PathTexts :
       returned = [op |-> "none", path |-> text, value |-> <<>>, again |-> <<>>]

\* normalizePathForFs is called on a text and then on what it returned.
NormalizeForFsCall(text) ==
  /\ returned.op = "none"
  /\ returned' = [op |-> "normalizePathForFs", path |-> text,
                  value |-> normalizePathForFsText(fs, text),
                  again |-> normalizePathForFsText(fs, normalizePathForFsText(fs, text))]
  /\ UNCHANGED <<fs, clipboard, pasteInProgress, eventQueue, ui, w, faults, core, self>>

\* PathValidator::normalizePath is called on a text and then on what it
\* returned.
NormalizePathCall(text, cwdOk) ==
  /\ returned.op = "none"
  /\ returned' = [op |-> "normalizePath", path |-> text,
                  value |-> normalizePath(text, cwdOk),
                  again |-> normalizePath(normalizePath(text, cwdOk), cwdOk)]
  /\ UNCHANGED <<fs, clipboard, pasteInProgress, eventQueue, ui, w, faults, core, self>>

NextNormalize ==
  \/ NormalizeForFsCall(returned.path)
  \/ \E cwdOk \in BOOLEAN : NormalizePathCall(returned.path, cwdOk)

NormalizeSpec == InitNormalize /\ [][NextNormalize]_vars

\* C29: path normalisation is idempotent: normalize(normalize(p)) = normalize(p)
\* for every path p, for paths that exist (canonical form) and for paths that
\* do not (cleaned absolute form), with both normalisers.
C29_NormalizeIdempotent ==
  returned.op \in {"normalizePathForFs", "normalizePath"} => returned.again = returned.value

\* A text that ends in a dot and names a link to a link was normalised to the
\* canonical path /d.
NormalizedThroughLinks ==
  /\ returned.op = "normalizePathForFs"
  /\ returned.path = <<"/", "l", "l", "/", ".">>
  /\ returned.value = <<"/", "d">>
  /\ returned.again = returned.value


(***************************************************************************)
(* What cancelOperation returns                                            *)
(***************************************************************************)
\* The id startOperation gave the operation of the run, and an id it never
\* gave.
OperationId == 1

OperationIds == {OperationId, OperationId + 1}

\* OperationManager::cancelOperation(id) with the call kept in returned: the
\* id, whether the operation was in operations_ and whether it had completed
\* when the call was made, and the value returned.  Nothing erases an
\* operation from operations_ during a run.
CancelCall(id) ==
  LET found == id = OperationId /\ core.slot = "record"
  IN  /\ ~core.starting
      /\ core' = IF found THEN [core EXCEPT !.cancelled = TRUE] ELSE core
      /\ returned' = [op |-> "cancelOperation", id |-> id, found |-> found,
                      completed |-> found /\ core.completed, value |-> found]
      /\ UNCHANGED <<fs, clipboard, pasteInProgress, eventQueue, ui, w, faults, self>>

InitCancel ==
  /\ fs = CoreFs
  /\ clipboard = [urls |-> <<>>, cut |-> FALSE]
  /\ pasteInProgress = FALSE
  /\ eventQueue = <<>>
  /\ ui = IdleUi
  /\ w = IdleWorker
  /\ faults = 0
  /\ core = IdleCore
  /\ self = "alive"
  /\ returned = [op |-> "none", id |-> 0, found |-> FALSE, completed |-> FALSE, value |-> FALSE]

NextCancel ==
  \/ \E sources \in CoreSources, destination \in CoreDestinations, overwrite \in BOOLEAN :
       copyFilesAsync(sources, destination, overwrite)
  \/ CoreDestination
  \/ CoreSize
  \/ CoreCopy
  \/ CoreCompleted
  \/ \E id \in OperationIds : CancelCall(id)

CancelSpec == InitCancel /\ [][NextCancel]_vars

\* C30: cancelOperation(id) returns true only if the operation exists and is
\* still running, and the operation is thereby cancelled; it returns false if
\* the id is not found or the operation has already completed.
C30_CancelReturnsRunning ==
  returned.op = "cancelOperation" =>
    /\ returned.value <=> (returned.found /\ ~returned.completed)
    /\ returned.value => core.cancelled

\* The half that holds: an id that is not found gives false, and true means
\* the cancelled flag of the operation is set.
CancelOfUnknownId ==
  returned.op = "cancelOperation" =>
    /\ ~returned.found => ~returned.value
    /\ returned.value => core.cancelled

\* The same for an operation that has not completed.
CancelWhileRunning ==
  returned.op = "cancelOperation" /\ ~returned.completed =>
    (returned.value <=> returned.found)

\* A completed operation was cancelled and the call returned true.
CancelledAfterCompletion ==
  returned.op = "cancelOperation" /\ returned.completed /\ returned.value

\* ---------------------------------------------------------------------------
\* OperationManager::startOperation, step by step.  The thread of the
\* operation is constructed before the record is stored in operations_, and
\* it reads operations_[id] without operationsMutex_.

\* startOperation up to the construction of the thread: the mutex is taken,
\* the Operation is made with both flags false, the thread may run.
startOperation(sources, destination, overwrite) ==
  /\ core.pc = "idle"
  /\ core' = [IdleCore EXCEPT !.pc = "lookup", !.starting = TRUE, !.sources = sources,
                              !.destination = destination, !.overwrite = overwrite]
  /\ UNCHANGED <<fs, clipboard, pasteInProgress, eventQueue, ui, w, faults, self, returned>>

\* operations_[id] = std::move(operation); return id: the record replaces
\* whatever the slot holds and the mutex is released.
RegisterOperation ==
  /\ core.starting
  /\ core' = [core EXCEPT !.slot = "record", !.starting = FALSE]
  /\ UNCHANGED <<fs, clipboard, pasteInProgress, eventQueue, ui, w, faults, self, returned>>

\* auto& op = operations_[id] in the thread: a missing key is inserted with an
\* empty pointer.  returned keeps what the lookup found and whether
\* startOperation still owned the mutex.
WorkerLookup ==
  /\ core.pc = "lookup"
  /\ core' = [core EXCEPT !.pc = "task",
                          !.slot = IF @ = "absent" THEN "null" ELSE @]
  /\ returned' = [op |-> "lookup", id |-> OperationId, found |-> core.slot = "record",
                  completed |-> FALSE, value |-> core.starting]
  /\ UNCHANGED <<fs, clipboard, pasteInProgress, eventQueue, ui, w, faults, self>>

\* task(op->cancelled, op->completed): the references are bound through the
\* pointer the slot holds at this moment.
WorkerTask ==
  /\ core.pc = "task"
  /\ core' = [core EXCEPT !.pc = "destination", !.refs = core.slot]
  /\ UNCHANGED <<fs, clipboard, pasteInProgress, eventQueue, ui, w, faults, self, returned>>

\* cancelled.load() in the copy loop through a reference bound to an empty
\* pointer: the thread may fault.
WorkerCrash ==
  /\ core.pc = "copy"
  /\ core.k <= Len(core.sources)
  /\ core.refs = "null"
  /\ core' = [core EXCEPT !.pc = "crashed"]
  /\ UNCHANGED <<fs, clipboard, pasteInProgress, eventQueue, ui, w, faults, self, returned>>

NextStart ==
  \/ \E sources \in CoreSources, destination \in CoreDestinations, overwrite \in BOOLEAN :
       startOperation(sources, destination, overwrite)
  \/ RegisterOperation
  \/ WorkerLookup
  \/ WorkerTask
  \/ WorkerCrash
  \/ CoreDestination
  \/ CoreSize
  \/ CoreCopy
  \/ CoreCompleted
  \/ \E id \in OperationIds : CancelCall(id)

StartSpec == InitCancel /\ [][NextStart]_vars

\* C31: the cancellation flag and the completion flag of an operation are
\* false when the operation is created, and a flag that is true stays true in
\* every step of startOperation, cancelOperation and the thread of the task.
C31_FlagsMonotonic ==
  [][/\ (core.pc = "idle" /\ core'.pc # "idle") => (~core'.cancelled /\ ~core'.completed)
     /\ core.cancelled => core'.cancelled
     /\ core.completed => core'.completed]_vars

\* An operation that was cancelled and whose thread finished.
BothFlagsSet == core.cancelled /\ core.completed /\ core.pc = "done"

\* C38: the thread of an operation finds its own record when it looks up
\* operations_[id], and the lookup does not happen while startOperation still
\* owns the mutex and has the insertion ahead of it.
C38_WorkerFindsItsRecord ==
  returned.op = "lookup" => (returned.found /\ ~returned.value)

\* The thread ran after startOperation had returned.
LookupAfterRegistration == returned.op = "lookup" /\ returned.found /\ ~returned.value

\* The thread faulted on the empty pointer its lookup had inserted.
CrashedOnEmptySlot == core.pc = "crashed" /\ returned.op = "lookup" /\ ~returned.found

\* ---------------------------------------------------------------------------
\* What a move of the core leaves at the destination.

\* The entries the sources held before the move that the destination does not
\* hold afterwards, each under the name the copy loop gives its source.
MoveMissing ==
  LET destPath == validatePath(core.destination)
  IN  { p \in DOMAIN CoreFs :
          \E k \in 1..Len(core.sources) :
            LET srcPath == validatePath(core.sources[k])
                q == FilePath(destPath, FileNameOf(srcPath))
                       \o SubSeq(p, Len(srcPath) + 1, Len(p))
            IN  /\ srcPath # NoPath
                /\ p = srcPath \/ IsUnder(p, srcPath)
                /\ ~(q \in DOMAIN fs /\ fs[q].kind = CoreFs[p].kind
                                     /\ fs[q].data = CoreFs[p].data) }

\* C37: whenever the future of moveFilesAsync holds success, the destination
\* holds every entry the sources held, directories with their children
\* included.
C37_MoveTransfersEverything ==
  (core.movePc = "done" /\ core.moveResult = "Success") => MoveMissing = {}

\* A move of plain files that succeeded and transferred them all.
FilesMovedWhole ==
  /\ core.movePc = "done" /\ core.moveResult = "Success"
  /\ MoveMissing = {}
  /\ \A k \in 1..Len(core.sources) : ~Exists(fs, validatePath(core.sources[k]))

\* A move that succeeded and lost the child of a directory source.
MovedDirectoryLostChild ==
  /\ core.movePc = "done" /\ core.moveResult = "Success"
  /\ <<<<"c">>, <<"D">>, <<"x">>>> \in MoveMissing
  /\ ~Exists(fs, <<<<"c">>, <<"D">>, <<"x">>>>)

\* ---------------------------------------------------------------------------
\* The future of an operation.

\* A step of the thread of the operation that does not fault.
WorkerProgress ==
  WorkerLookup \/ WorkerTask \/ CoreDestination \/ CoreSize \/ CoreCopy \/ CoreCompleted

\* startOperation runs to its return and the thread runs while it can.
FairStartSpec ==
  /\ InitCancel /\ [][NextStart]_vars
  /\ WF_vars(RegisterOperation) /\ WF_vars(WorkerProgress)

\* C39: the future returned for an operation eventually receives a result,
\* and a promise that holds a result is never set again.
C39_FutureGetsOneResult ==
  /\ (core.pc = "lookup") ~> (core.result # "")
  /\ [][core.result # "" => core'.result = core.result]_vars

\* The promise once set keeps its value in every step.
PromiseNeverSetTwice == [][core.result # "" => core'.result = core.result]_vars

\* The thread faulted before any value was given to the promise.
CrashedWithoutResult == core.pc = "crashed" /\ core.result = ""

\* The thread faulted at the completion store after the promise was set.
CrashedAfterResult == core.pc = "crashed" /\ core.result # ""

\* ---------------------------------------------------------------------------
\* Restoring an entry that lies inside a trashed directory.

\* The trees a nested restore may find.  The directory /h/%41 is in the trash
\* with its child a, alone or beside the trashed file /h/a; meanwhile a new
\* entry may stand at /h/a, the home or the info root may be read-only, and a
\* sidecar may be truncated or gone.
NestedTrees ==
  LET a == <<<<"h">>, <<"a">>>>
      k == <<<<"h">>, <<"%", "4", "1">>>>
      one == moveToTrash(TrashFs, a, "none", 1).fs
      both == moveToTrash(one, k, "none", 1).fs
      alone == moveToTrash(TrashFs, k, "none", 1).fs
      Occupied(t) == {t} \cup (IF a \in DOMAIN t THEN {}
                               ELSE {WithEntry(t, a, entry) : entry \in NewEntries})
      Protected(t) == {t} \cup {[t EXCEPT ![dir].w = FALSE] : dir \in {HomePath, trashInfoPath}}
      Tampered(t) == {t} \cup {[t EXCEPT ![i].data = <<>>] : i \in ChildrenOf(t, trashInfoPath)}
                         \cup {Without(t, i) : i \in ChildrenOf(t, trashInfoPath)}
  IN  UNION {UNION {Tampered(t2) : t2 \in Protected(t1)}
               : t1 \in Occupied(both) \cup Occupied(alone)}

InitNested ==
  /\ fs \in NestedTrees
  /\ clipboard = [urls |-> <<>>, cut |-> FALSE]
  /\ pasteInProgress = FALSE
  /\ eventQueue = <<>>
  /\ ui = IdleUi
  /\ w = IdleWorker
  /\ faults = 0
  /\ core = IdleCore
  /\ self = "alive"
  /\ returned = [op |-> "none", path |-> <<>>, before |-> fs, after |-> fs,
                 ok |-> TRUE, error |-> ""]

\* The restore is asked for any entry below the trash files root.
NextNested ==
  \/ \E targetPath \in {q \in Deletable : q \in DOMAIN fs /\ ~IsSymLink(fs, q)},
        ms \in ClockValues :
       /\ onMenuDelete(targetPath, TRUE, "none", ms)
       /\ Cardinality(DOMAIN fs') <= MaxEntries
  \/ \E trashPath \in {q \in DOMAIN fs : IsUnder(q, trashFilesPath)},
        fault \in TrashFaultChoices :
       /\ RestoreCall(trashPath, fault)
       /\ Cardinality(DOMAIN fs') <= MaxEntries
  \/ \E confirmed \in BOOLEAN, fault \in TrashFaultChoices : onMenuEmptyTrash(confirmed, fault)

NestedSpec == InitNested /\ [][NextNested]_vars

\* The sidecar restoreFromTrash opens for a path.
SidecarRead(f, trashPath) ==
  FilePath(trashInfoPath, FileNameOf(normalizePathForFs(f, trashPath)) \o TrashInfoSuffix)

\* The top-level trashed item a path below the trash files root belongs to.
TopItemOf(f, trashPath) ==
  SubSeq(normalizePathForFs(f, trashPath), 1, Len(trashFilesPath) + 1)

\* The last call restored an entry nested inside a trashed directory.
RestoringNested ==
  /\ Restoring
  /\ InsideTrashFiles(returned.before, returned.path)
  /\ TopItemOf(returned.before, returned.path)
       # normalizePathForFs(returned.before, returned.path)

\* C36: a restore of a path nested inside a trashed directory neither succeeds
\* through the sidecar of a different top-level item nor removes that sidecar.
C36_NestedRestoreOwnSidecar ==
  RestoringNested =>
    \A item \in TrashItems(returned.before) \ {TopItemOf(returned.before, returned.path)} :
      SidecarOf(item) \in DOMAIN returned.before =>
        /\ SidecarOf(item) \in DOMAIN returned.after
        /\ ~(returned.ok /\ SidecarRead(returned.before, returned.path) = SidecarOf(item))

\* A nested restore that found no sidecar under the name of the entry.
NestedRestoreRefused ==
  /\ RestoringNested
  /\ ~returned.ok /\ returned.error = "Missing restore metadata"
  /\ returned.after = returned.before

\* A nested restore took the sidecar of the trashed file of the same name: the
\* entry went to the place that file came from and the file lost its sidecar.
NestedRestoreTookSidecar ==
  /\ RestoringNested /\ returned.ok
  /\ \E item \in TrashItems(returned.before) \ {TopItemOf(returned.before, returned.path)} :
       /\ SidecarOf(item) \in DOMAIN returned.before
       /\ SidecarOf(item) \notin DOMAIN returned.after
       /\ item \in DOMAIN returned.after

\* ---------------------------------------------------------------------------
\* The temporary sibling after a failed copy of a file.

\* The entries whose name carries the temporary marker.
TempFiles(f) == {p \in DOMAIN f : p # <<>> /\ HasTempMarker(FileNameOf(p))}

\* copyFileWithProgress has returned false.
FileCopyFailed == w.pc = "ret" /\ w.kind = "file" /\ ~w.ok

\* C40: whenever copyFileWithProgress returns failure, no temporary
\* ".kitaplik-tmp-" sibling created by the call remains in the tree.
C40_NoTempAfterFailure == FileCopyFailed => TempFiles(fs) = {}

\* A copy failed in its read/write loop or at the final rename, after the
\* temporary file had been created.
FailedAfterTempCreated ==
  /\ FileCopyFailed
  /\ w.tempPath # <<>>
  /\ w.error \in {"Write error", "Failed to finalize destination"}

\* ---------------------------------------------------------------------------
\* Pasting a directory into itself or into one of its descendants.

\* The tree of these runs:  /m/T/x (1 block)   /m/T/S/y (1 block)   /n/T
SelfFs ==
  LET m == <<"m">>  n == <<"n">>  T == <<"T">>  S == <<"S">>
      x == <<"x">>  y == <<"y">>
  IN  (<<>> :> DirEntry)
      @@ (<<m>> :> DirEntry) @@ (<<m, T>> :> DirEntry)
      @@ (<<m, T, x>> :> FileEntry(<<"x1">>))
      @@ (<<m, T, S>> :> DirEntry)
      @@ (<<m, T, S, y>> :> FileEntry(<<"y1">>))
      @@ (<<n>> :> DirEntry) @@ (<<n, T>> :> DirEntry)

\* The directories the user pastes /m/T into: itself, its child, another one.
SelfDests == { <<<<"m">>, <<"T">>>>, <<<<"m">>, <<"T">>, <<"S">>>>, <<<<"n">>>> }

InitSelf ==
  /\ fs = SelfFs
  /\ clipboard = [urls |-> << <<<<"m">>, <<"T">>>> >>, cut |-> FALSE]
  /\ pasteInProgress = FALSE
  /\ eventQueue = <<>>
  /\ ui = IdleUi
  /\ w = IdleWorker
  /\ faults = 0
  /\ core = IdleCore
  /\ self = "alive"
  /\ returned = <<>>

\* The worker stops once the tree holds MaxEntries entries.
NextSelf ==
  \/ \E destDir \in SelfDests : onMenuPaste(destDir)
  \/ MainStep
  \/ WorkerStep /\ Cardinality(DOMAIN fs') <= MaxEntries

SelfSpec == InitSelf /\ [][NextSelf]_vars

\* C35: the recursion of copyRecursivelyWithProgress does not re-enter the
\* entries it has just created: every source it is called for was in the tree
\* before the paste, also when the destination lies inside the source.
C35_NoReentryOfCreated == w.pc = "call" => w.src \in DOMAIN SelfFs

\* A paste into another directory ended with every source entry copied once.
PastedElsewhereOnce ==
  /\ w.pc = "done"
  /\ <<<<"n">>, <<"T">>, <<"S">>, <<"y">>>> \in DOMAIN fs
  /\ \A p \in DOMAIN fs \ DOMAIN SelfFs : IsUnder(p, <<<<"n">>, <<"T">>>>) /\ Len(p) <= 4

\* A paste into the source itself has made the copy of its own copy and walks
\* into it.
CopyingItsOwnCopy ==
  /\ w.pc = "iter"
  /\ w.stack[Len(w.stack)].src = <<<<"m">>, <<"T">>, <<"T">>>>
  /\ w.stack[Len(w.stack)].dst = <<<<"m">>, <<"T">>, <<"T">>, <<"T">>>>
  /\ w.stack[Len(w.stack)].dst \in DOMAIN fs

\* ---------------------------------------------------------------------------
\* A move whose source was skipped.

\* The last call of the source loop was for a top-level source whose
\* destination existed, the decision was Skip, and the call has returned: the
\* destination is the entry it was before the paste.
TopLevelSkipped ==
  /\ w.pc \in {"ret", "loop", "finish"}
  /\ w.stack = <<>>
  /\ w.answered /\ w.choice = "Skip"
  /\ \E k \in 1..Len(w.sourcePaths) : w.sourcePaths[k] = w.src
  /\ w.dst \in DOMAIN PasteFs /\ w.dst \in DOMAIN fs /\ fs[w.dst] = PasteFs[w.dst]

\* C34: a move does not destroy what it did not transfer: a source for which
\* the decision was Skip still exists afterwards.
C34_SkippedSourceKept == (w.isCut /\ TopLevelSkipped) => w.src \in DOMAIN fs

\* A copy skipped a source and went on: the source is where it was.
SkippedOnCopyKept ==
  /\ ~w.isCut /\ TopLevelSkipped /\ w.pc = "loop"
  /\ w.src \in DOMAIN fs /\ fs[w.src] = PasteFs[w.src]

\* A move skipped the file /s/b and then deleted it: its content is neither at
\* the source nor at the destination.
SkippedSourceDeleted ==
  /\ w.isCut /\ TopLevelSkipped /\ w.pc = "loop"
  /\ w.src = <<<<"s">>, <<"b">>>>
  /\ w.src \notin DOMAIN fs
  /\ \A p \in DOMAIN fs : fs[p].kind = "file" => fs[p].data # PasteFs[w.src].data

\* ---------------------------------------------------------------------------
\* The frame of a KeepBoth decision.

\* The tree of TreeFs with the directory /n/T and its file x already at the
\* destination /n.
KeepFs ==
  TreeFs @@ (<<<<"n">>, <<"T">>>> :> DirEntry)
         @@ (<<<<"n">>, <<"T">>, <<"x">>>> :> FileEntry(<<"x0">>))

InitKeep ==
  /\ fs = KeepFs
  /\ \E urls \in TreeClipboardUrls, cut \in BOOLEAN :
       clipboard = [urls |-> urls, cut |-> cut]
  /\ pasteInProgress = FALSE
  /\ eventQueue = <<>>
  /\ ui = IdleUi
  /\ w = IdleWorker
  /\ faults = 0
  /\ core = IdleCore
  /\ self = "alive"
  /\ returned = <<>>

KeepSpec == InitKeep /\ [][NextTree]_vars

\* The only source of the run met an existing destination, the decision was
\* KeepBoth, and its call has returned success.
KeptBoth ==
  /\ w.pc = "loop" /\ w.i = 2 /\ Len(w.sourcePaths) = 1
  /\ w.ok /\ w.answered /\ w.choice = "KeepBoth"

\* The existing destination of the source of the run.
KeepDestination == FilePath(w.destDir, FileNameOf(w.sourcePaths[1]))

\* C32: after a KeepBoth decision the existing destination and everything
\* beneath it is what it was, and the incoming entry with its whole subtree
\* stands under a sibling name that did not exist before.
C32_KeepBothFrame ==
  KeptBoth =>
    /\ Subtree(fs, KeepDestination) = Subtree(KeepFs, KeepDestination)
    /\ \E q \in ChildrenOf(fs, w.destDir) \ DOMAIN KeepFs :
         Subtree(fs, q) = Subtree(KeepFs, w.sourcePaths[1])

\* The file /m/g was kept beside /q/g as "/q/g (copy)".
KeptBothFile ==
  /\ KeptBoth
  /\ w.sourcePaths[1] = <<<<"m">>, <<"g">>>>
  /\ Subtree(fs, KeepDestination) = Subtree(KeepFs, KeepDestination)
  /\ \E q \in ChildrenOf(fs, w.destDir) \ DOMAIN KeepFs :
       Subtree(fs, q) = Subtree(KeepFs, w.sourcePaths[1])

\* The directory /m/T was kept beside /n/T without its hidden file .h; on a
\* move the file is then nowhere.
KeptBothWithoutHidden ==
  /\ KeptBoth
  /\ w.sourcePaths[1] = <<<<"m">>, <<"T">>>>
  /\ Subtree(fs, KeepDestination) = Subtree(KeepFs, KeepDestination)
  /\ \E q \in ChildrenOf(fs, w.destDir) \ DOMAIN KeepFs :
       /\ FilePath(q, <<"S">>) \o <<<<"y">>>> \in DOMAIN fs
       /\ FilePath(q, <<".", "h">>) \notin DOMAIN fs

\* ---------------------------------------------------------------------------
\* The order of the walk.

\* The tree of these runs:
\*   /m/T/R/   /m/T/S/y (1 block)   /m/T/Q (1 block)   /m/T/x (1 block)
\*   /m/g (1 block)   /n/T/x (1 block)   /n/g (1 block)
WalkFs ==
  LET m == <<"m">>  n == <<"n">>  T == <<"T">>  S == <<"S">>  R == <<"R">>
      x == <<"x">>  y == <<"y">>  Q == <<"Q">>  g == <<"g">>
  IN  (<<>> :> DirEntry)
      @@ (<<m>> :> DirEntry) @@ (<<m, T>> :> DirEntry)
      @@ (<<m, T, x>> :> FileEntry(<<"x1">>))
      @@ (<<m, T, Q>> :> FileEntry(<<"q1">>))
      @@ (<<m, T, S>> :> DirEntry)
      @@ (<<m, T, S, y>> :> FileEntry(<<"y1">>))
      @@ (<<m, T, R>> :> DirEntry)
      @@ (<<m, g>> :> FileEntry(<<"g1">>))
      @@ (<<n>> :> DirEntry) @@ (<<n, T>> :> DirEntry)
      @@ (<<n, T, x>> :> FileEntry(<<"x0">>))
      @@ (<<n, g>> :> FileEntry(<<"g0">>))

InitWalk ==
  /\ fs = WalkFs
  /\ \E cut \in BOOLEAN :
       clipboard = [urls |-> << <<<<"m">>, <<"T">>>>, <<<<"m">>, <<"g">>>> >>, cut |-> cut]
  /\ pasteInProgress = FALSE
  /\ eventQueue = <<>>
  /\ ui = IdleUi
  /\ w = IdleWorker
  /\ faults = 0
  /\ core = IdleCore
  /\ self = "alive"
  /\ returned = <<>>

WalkSpec == InitWalk /\ [][NextTree]_vars

\* Directories stand before everything else, and among the directories and
\* among the rest the names ascend.
Precedes(f, a, b) ==
  \/ IsDir(f, a) /\ ~IsDir(f, b)
  \/ IsDir(f, a) = IsDir(f, b) /\ NameLess(FileNameOf(a), FileNameOf(b))

\* The walk enters a directory: the children it will visit are those the
\* directory lists, each once, in ascending order.
EntersDirectory ==
  (Len(w'.stack) = Len(w.stack) + 1) =>
    LET frame == w'.stack[Len(w'.stack)]
    IN  /\ {frame.entries[k] : k \in 1..Len(frame.entries)} = ListedEntries(fs', frame.src)
        /\ \A i, j \in 1..Len(frame.entries) :
             i < j => Precedes(fs', frame.entries[i], frame.entries[j])

\* The walk goes to a child: it is the first of those left, and the others
\* stay in their order.
VisitsNextChild ==
  (w.pc = "iter" /\ w'.pc = "call") =>
    LET left == w.stack[Len(w.stack)].entries
    IN  /\ w'.src = Head(left)
        /\ w'.stack[Len(w'.stack)].entries = Tail(left)
        /\ \A k \in 1..Len(Tail(left)) : Precedes(fs, w'.src, Tail(left)[k])

\* The source loop takes the sources one after the other in list order.
SourcesInListOrder ==
  /\ (w.pc = "loop" /\ w'.pc = "call") => w'.src = w.sourcePaths[w.i]
  /\ (w.pc \notin {"idle", "scan"} /\ w'.pc \notin {"idle", "done"}) =>
       w'.i \in {w.i, w.i + 1}

\* A conflict request is issued for the entry the walk is at, the worker waits
\* for its answer, and no second request is issued while one is open; the
\* progress notifications are queued behind what was issued before.
IssuedInWalkOrder ==
  /\ \A k \in 1..Len(eventQueue') :
       eventQueue'[k].type = "conflict" =>
         /\ w'.pc = "await" /\ ~w'.answered
         /\ eventQueue'[k].src = w'.src /\ eventQueue'[k].dst = w'.dst
         /\ \A j \in 1..Len(eventQueue') : eventQueue'[j].type = "conflict" => j = k
  /\ (Len(eventQueue') > Len(eventQueue)) =>
       /\ w' # w
       /\ SubSeq(eventQueue', 1, Len(eventQueue)) = eventQueue

\* C33: the walk is deterministic: the children of a directory are visited in
\* name order with the directories first, the top-level sources in list
\* order, and the conflict requests and progress notifications are issued in
\* that order, one at a time.
C33_WalkOrder ==
  [][EntersDirectory /\ VisitsNextChild /\ SourcesInListOrder /\ IssuedInWalkOrder]_vars

\* The walk of /m/T has visited R, S and Q and is at x; afterwards the second
\* source follows.
WalkedInOrder ==
  /\ w.pc = "call" /\ w.i = 1
  /\ w.src = <<<<"m">>, <<"T">>, <<"x">>>>
  /\ Len(w.stack) = 1 /\ w.stack[1].entries = <<>>
  /\ \E q \in ChildrenOf(fs, <<<<"n">>>>) :
       /\ FilePath(q, <<"R">>) \in DOMAIN fs
       /\ FilePath(q, <<"S">>) \o <<<<"y">>>> \in DOMAIN fs
       /\ FilePath(q, <<"Q">>) \in DOMAIN fs
       /\ FilePath(q, <<"x">>) \notin DOMAIN fs
====
